---------------------------- MODULE Spec2Model ----------------------------
(***************************************************************************)
(* Verification model of the poker-bots-playground match engine core.      *)
(*                                                                         *)
(*   Spec       MatchService (services/match_service.py): lifecycle        *)
(*              commands issued by an API thread, interleaved with the     *)
(*              match-loop worker threads, the HandStore directory and     *)
(*              the persistent leaderboard hook.                           *)
(*   SpecLive   Spec with every started match-loop thread scheduled         *)
(*              fairly.                                                    *)
(*   SpecUpload upload_bot (api/routes.py) on top of                       *)
(*              MatchService.register_bot and reset_match: validation,     *)
(*              the uploads directory and the seat registry.               *)
(*   SpecDecide BotRunner.act (bots/runtime.py): one bot decision after    *)
(*              another over the shared _EXECUTOR thread pool.             *)
(*   SpecHand   PokerEngine.play_hand (engine/game.py): blinds, betting    *)
(*              rounds driven by the bots' replies, fold-out and showdown  *)
(*              settlement.                                                *)
(*   SpecNormalize  normalize_action (engine/game.py) applied to one raw   *)
(*              reply in one round context after another.                  *)
(*                                                                         *)
(* Seat ids "1".."6" are modelled by the integers 1..6 (SEAT_INDEX order). *)
(* A datetime that is either None or set is modelled by "none" / "set";    *)
(* a seat's uploaded_at by the tick of the clock it was read at.           *)
(***************************************************************************)
EXTENDS Integers, Sequences, FiniteSets, TLC

\* ------------------------------------------------------------------ bounds
\* hands a match may start (cap on _hand_counter in the worker's guard)
MaxHands == 1
\* hands a match may start under SpecHandList
MaxListed == 3
\* thread objects that may coexist (slots for match-loop threads)
MaxWorkers == 2
\* register_bot is called for seats 1..MaxRegSeat
MaxRegSeat == 2
\* archives save_upload may store for one seat (cap in upload_bot's guard)
MaxUploads == 2

\* ------------------------------------------------------- program constants
\* len(SEAT_ORDER)
NumSeats == 6

SEAT_ORDER == 1..NumSeats
RegSeats == 1..MaxRegSeat
Workers == 1..MaxWorkers
NoThread == 0
NoSeat == 0
NoTime == 0

VARIABLES
    \* ---- MatchService fields
    status,         \* _status
    started_at,     \* _started_at: "none" | "set"
    hands,          \* _hands: sequence of HandRecord
    hand_counter,   \* _hand_counter
    button_seat,    \* _button_seat (NoSeat = None)
    seats,          \* _seats: seat -> [ready, bot_name, uploaded_at]
    bots,           \* _bots: seat -> BOOLEAN (a BotRunner is bound)
    stop_event,     \* _stop_event
    loop_thread,    \* _loop_thread (NoThread = None)
    lock,           \* holder of _lock across steps (a worker), or NoThread
    \* ---- threads
    wpc,            \* match-loop thread -> position in _run_match_loop
                    \* ("none": never started, or terminated)
    cpc,            \* API thread -> position in the command it executes
    cjoin,          \* API thread -> the thread its join() waits for
    last,           \* outcome of the most recent lifecycle command
    \* ---- collaborators
    files,          \* HandStore directory: hand ids with a <id>.txt
    hook_calls,     \* invocations of on_hand_completed (routes.py)
    \* ---- bots/runtime.py
    pool_running,   \* _EXECUTOR threads still inside an abandoned bot.act
    pool_queued,    \* abandoned work items of _EXECUTOR not yet started
    decide,         \* the latest BotRunner.act call: its input and result
    \* ---- engine/game.py
    hand,           \* the locals of PokerEngine.play_hand and its position
    norm,           \* the latest normalize_action call: arguments and result
    \* ---- api/routes.py
    upload,         \* the latest upload_bot request, its response, and the
                    \* runtime/uploads and runtime/artifacts directories
    \* ---- calls of functions that read what they are given
    listing,        \* the latest list_hands call: _hands, arguments, result
    archive,        \* the latest archive looked into: its members, and what
                    \* validator.py and loader.py make of it
    \* ---- AuthService (auth/service.py, auth/store.py), one username
    auth,           \* the clock, the login_attempts row, the login calls in
                    \* progress, and the failed attempts seen so far
    \* ---- engine/game.py, showdown
    evaluation      \* the latest evaluate_five_card_hand call: cards, result

matchVars == <<status, started_at, hands, hand_counter, button_seat, seats,
               bots, stop_event, loop_thread>>
runtimeVars == <<pool_running, pool_queued, decide>>
vars == <<status, started_at, hands, hand_counter, button_seat, seats, bots,
          stop_event, loop_thread, lock, wpc, cpc, cjoin, last, files,
          hook_calls, pool_running, pool_queued, decide, hand, norm, upload,
          listing, archive, auth, evaluation>>
auxVars == <<listing, archive, auth, evaluation>>

\* ---------------------------------------------------------------- helpers
Min(S) == CHOOSE x \in S : \A y \in S : x <= y

\* SeatState(seat_id) as constructed in __init__ / reset_match
SeatState == [ready |-> FALSE, bot_name |-> "none", uploaded_at |-> NoTime]

\* MatchService._ready_seats_locked: the set that order_seats then sorts
ready_seats_locked == {s \in SEAT_ORDER : seats[s].ready /\ bots[s]}

\* _next_button_seat without the wrap-around: past the last active seat the
\* button stays where it is
next_button_seat_NoWrap(active) ==
    IF button_seat \notin active
    THEN Min(active)
    ELSE IF \E s \in active : s > button_seat
         THEN Min({s \in active : s > button_seat})
         ELSE button_seat

\* MatchService._next_button_seat over the sorted active seats
next_button_seat(active) ==
    IF button_seat \notin active
    THEN Min(active)
    ELSE IF \E s \in active : s > button_seat
         THEN Min({s \in active : s > button_seat})
         ELSE Min(active)

\* Thread.is_alive()
is_alive(t) == t # NoThread /\ wpc[t] # "none"

\* a slot for a new Thread object: not running, not awaited by any join
FreeSlots == {w \in Workers : ~is_alive(w) /\ \A c \in DOMAIN cjoin : cjoin[c] # w}

\* what the caller of a lifecycle command observes: the command, and
\* whether it went on normally (ok) or raised RuntimeError
Outcome(cmd, ok) == [cmd |-> cmd, ok |-> ok]


\* variables of the other specifications, untouched by MatchService
nonMatchVars == <<runtimeVars, hand, norm, upload, auxVars>>

\* ------------------------------------------------------------------- Init
\* MatchService.__init__ over a fresh HandStore directory
InitMatch ==
    /\ status = "waiting"
    /\ started_at = "none"
    /\ hands = <<>>
    /\ hand_counter = 0
    /\ button_seat = NoSeat
    /\ seats = [s \in SEAT_ORDER |-> SeatState]
    /\ bots = [s \in SEAT_ORDER |-> FALSE]
    /\ stop_event = FALSE
    /\ loop_thread = NoThread
    /\ lock = NoThread
    /\ wpc = [w \in Workers |-> "none"]
    /\ cpc = [c \in {1} |-> "idle"]
    /\ cjoin = [c \in {1} |-> NoThread]
    /\ last = [cmd |-> "none", ok |-> TRUE]
    /\ files = {}
    /\ hook_calls = 0

\* --------------------------------------------------------------- commands
\* MatchService._ensure_loop_running_locked (the caller holds _lock)
ensure_loop_running_locked ==
    IF is_alive(loop_thread)
    THEN UNCHANGED <<stop_event, loop_thread, wpc>>
    ELSE /\ FreeSlots # {}
         /\ stop_event' = FALSE
         /\ loop_thread' = Min(FreeSlots)
         /\ wpc' = [wpc EXCEPT ![Min(FreeSlots)] = "check"]

\* start_match without its `if self._status == "paused"` check
StartError_IgnoresPaused ==
    \/ status = "running"
    \/ Cardinality(ready_seats_locked) < 2

\* the conditions under which start_match raises RuntimeError
StartError ==
    \/ status = "running"
    \/ status = "paused"
    \/ Cardinality(ready_seats_locked) < 2

\* MatchService.start_match
start_match(c) ==
    /\ cpc[c] = "idle"
    /\ lock = NoThread
    /\ IF StartError
       THEN /\ last' = Outcome("start", FALSE)
            /\ UNCHANGED <<status, started_at, stop_event, loop_thread, wpc>>
       ELSE /\ status' = "running"
            /\ started_at' = "set"
            /\ ensure_loop_running_locked
            /\ last' = Outcome("start", TRUE)
    /\ UNCHANGED <<hands, hand_counter, button_seat, seats, bots, lock, cpc,
                   cjoin, files, hook_calls, nonMatchVars>>

\* pause_match setting the shutdown signal before it checks the status
pause_match_SignalsFirst(c) ==
    /\ cpc[c] = "idle"
    /\ lock = NoThread
    /\ stop_event' = TRUE
    /\ IF status # "running"
       THEN /\ last' = Outcome("pause", FALSE)
            /\ UNCHANGED <<status, loop_thread, cpc, cjoin>>
       ELSE /\ status' = "paused"
            /\ cjoin' = [cjoin EXCEPT ![c] = loop_thread]
            /\ loop_thread' = NoThread
            /\ cpc' = [cpc EXCEPT ![c] = "join"]
            /\ last' = Outcome("pause", TRUE)
    /\ UNCHANGED <<started_at, hands, hand_counter, button_seat, seats, bots,
                   lock, wpc, files, hook_calls, nonMatchVars>>

\* the condition under which pause_match raises RuntimeError
PauseError == status # "running"

\* MatchService.pause_match, the section under _lock; the join follows
pause_match(c) ==
    /\ cpc[c] = "idle"
    /\ lock = NoThread
    /\ IF PauseError
       THEN /\ last' = Outcome("pause", FALSE)
            /\ UNCHANGED <<status, stop_event, loop_thread, cpc, cjoin>>
       ELSE /\ status' = "paused"
            /\ stop_event' = TRUE
            /\ cjoin' = [cjoin EXCEPT ![c] = loop_thread]
            /\ loop_thread' = NoThread
            /\ cpc' = [cpc EXCEPT ![c] = "join"]
            /\ last' = Outcome("pause", TRUE)
    /\ UNCHANGED <<started_at, hands, hand_counter, button_seat, seats, bots,
                   lock, wpc, files, hook_calls, nonMatchVars>>

\* the conditions under which resume_match raises RuntimeError
ResumeError ==
    \/ status # "paused"
    \/ Cardinality(ready_seats_locked) < 2

\* MatchService.resume_match
resume_match(c) ==
    /\ cpc[c] = "idle"
    /\ lock = NoThread
    /\ IF ResumeError
       THEN /\ last' = Outcome("resume", FALSE)
            /\ UNCHANGED <<status, started_at, stop_event, loop_thread, wpc>>
       ELSE /\ status' = "running"
            /\ started_at' = "set"
            /\ ensure_loop_running_locked
            /\ last' = Outcome("resume", TRUE)
    /\ UNCHANGED <<hands, hand_counter, button_seat, seats, bots, lock, cpc,
                   cjoin, files, hook_calls, nonMatchVars>>

\* the condition under which end_match raises RuntimeError
EndError == status \notin {"running", "paused"}

\* MatchService.end_match, the section under _lock; the join follows
end_match(c) ==
    /\ cpc[c] = "idle"
    /\ lock = NoThread
    /\ IF EndError
       THEN /\ last' = Outcome("end", FALSE)
            /\ UNCHANGED <<status, stop_event, loop_thread, cpc, cjoin>>
       ELSE /\ status' = "stopped"
            /\ stop_event' = TRUE
            /\ cjoin' = [cjoin EXCEPT ![c] = loop_thread]
            /\ loop_thread' = NoThread
            /\ cpc' = [cpc EXCEPT ![c] = "join"]
            /\ last' = Outcome("end", TRUE)
    /\ UNCHANGED <<started_at, hands, hand_counter, button_seat, seats, bots,
                   lock, wpc, files, hook_calls, nonMatchVars>>

\* reset_match leaving the bound BotRunners in place
reset_match_KeepsBots(c) ==
    /\ cpc[c] = "idle"
    /\ lock = NoThread
    /\ status' = "waiting"
    /\ started_at' = "none"
    /\ hands' = <<>>
    /\ hand_counter' = 0
    /\ button_seat' = NoSeat
    /\ seats' = [s \in SEAT_ORDER |-> SeatState]
    /\ stop_event' = TRUE
    /\ cjoin' = [cjoin EXCEPT ![c] = loop_thread]
    /\ loop_thread' = NoThread
    /\ cpc' = [cpc EXCEPT ![c] = "reset_join"]
    /\ last' = Outcome("reset", TRUE)
    /\ UNCHANGED <<bots, lock, wpc, files, hook_calls, nonMatchVars>>

\* MatchService.reset_match, the section under _lock; join and clear follow
reset_match(c) ==
    /\ cpc[c] = "idle"
    /\ lock = NoThread
    /\ status' = "waiting"
    /\ started_at' = "none"
    /\ hands' = <<>>
    /\ hand_counter' = 0
    /\ button_seat' = NoSeat
    /\ seats' = [s \in SEAT_ORDER |-> SeatState]
    /\ bots' = [s \in SEAT_ORDER |-> FALSE]
    /\ stop_event' = TRUE
    /\ cjoin' = [cjoin EXCEPT ![c] = loop_thread]
    /\ loop_thread' = NoThread
    /\ cpc' = [cpc EXCEPT ![c] = "reset_join"]
    /\ last' = Outcome("reset", TRUE)
    /\ UNCHANGED <<lock, wpc, files, hook_calls, nonMatchVars>>

\* where a command continues once its join is over
AfterJoin(pc) == IF pc = "reset_join" THEN "reset_clear" ELSE "idle"

\* `if thread and thread.is_alive() ...: thread.join(timeout=2)`:
\* there is nothing to wait for, or the thread ends within the timeout
JoinDone(c) ==
    /\ cpc[c] \in {"join", "reset_join"}
    /\ ~is_alive(cjoin[c])
    /\ cpc' = [cpc EXCEPT ![c] = AfterJoin(cpc[c])]
    /\ cjoin' = [cjoin EXCEPT ![c] = NoThread]
    /\ UNCHANGED <<matchVars, lock, wpc, last, files, hook_calls, nonMatchVars>>

\* thread.join(timeout=2) returns while the thread is still alive
JoinTimeout(c) ==
    /\ cpc[c] \in {"join", "reset_join"}
    /\ is_alive(cjoin[c])
    /\ cpc' = [cpc EXCEPT ![c] = AfterJoin(cpc[c])]
    /\ cjoin' = [cjoin EXCEPT ![c] = NoThread]
    /\ UNCHANGED <<matchVars, lock, wpc, last, files, hook_calls, nonMatchVars>>

\* reset_match's final self.hand_store.clear() (HandStore.clear), run
\* without _lock
ResetClear(c) ==
    /\ cpc[c] = "reset_clear"
    /\ files' = {}
    /\ cpc' = [cpc EXCEPT ![c] = "idle"]
    /\ UNCHANGED <<matchVars, lock, wpc, cjoin, last, hook_calls, nonMatchVars>>

\* what load_bot_from_zip does with the archive behind bot_path
BotPaths == {"none", "loads", "load_error"}

\* register_bot marking the seat ready before the archive is loaded
register_bot_locked_MarksBeforeLoad(seat_id, bot_name, bot_path, now) ==
    /\ bots' = IF bot_path = "loads"
               THEN [bots EXCEPT ![seat_id] = TRUE]
               ELSE bots
    /\ seats' = [seats EXCEPT ![seat_id] =
                    [ready |-> TRUE, bot_name |-> bot_name,
                     uploaded_at |-> now]]

\* the body of register_bot under _lock: load_bot_from_zip raising leaves
\* before any assignment
register_bot_locked(seat_id, bot_name, bot_path, now) ==
    IF bot_path = "load_error"
    THEN UNCHANGED <<seats, bots>>
    ELSE /\ bots' = IF bot_path = "loads"
                    THEN [bots EXCEPT ![seat_id] = TRUE]
                    ELSE bots
         /\ seats' = [seats EXCEPT ![seat_id] =
                         [ready |-> TRUE, bot_name |-> bot_name,
                          uploaded_at |-> now]]

\* register_bot starting the match by itself once it has registered a seat
register_bot_AutoStarts(c, seat_id, bot_name, bot_path, now) ==
    /\ cpc[c] = "idle"
    /\ lock = NoThread
    /\ register_bot_locked(seat_id, bot_name, bot_path, now)
    /\ status' = IF status = "waiting" THEN "running" ELSE status
    /\ UNCHANGED <<started_at, hands, hand_counter, button_seat,
                   stop_event, loop_thread, lock, wpc, cpc, cjoin, last,
                   files, hook_calls, nonMatchVars>>

\* MatchService.register_bot called by an API thread
register_bot(c, seat_id, bot_name, bot_path, now) ==
    /\ cpc[c] = "idle"
    /\ lock = NoThread
    /\ register_bot_locked(seat_id, bot_name, bot_path, now)
    /\ UNCHANGED <<status, started_at, hands, hand_counter, button_seat,
                   stop_event, loop_thread, lock, wpc, cpc, cjoin, last,
                   files, hook_calls, nonMatchVars>>

\* ---------------------------------------------------------- api/routes.py
\* the seat_id of a request: a seat of the table, or none of SEAT_ORDER
UploadSeats == RegSeats \cup {NumSeats + 1}

\* readings of datetime.now(timezone.utc) in register_bot
UploadTimes == {1, 2}

\* bot_file.filename
UploadNames == {"a.zip", "b.zip", "bot.txt"}

\* the uploaded payload:
\*   "oversized"     more than MAX_UPLOAD_BYTES
\*   "empty", "bad_zip", "unsafe_paths", "no_bot_py", "no_class"
\*                   turned down by validate_bot_archive
\*   "load_error"    valid, load_bot_from_zip raises BotLoadError
\*                   (a PokerBot class without act)
\*   "load_raises"   valid, bot.py raises while it is imported
\*   "loads"         valid, and it loads
Archives ==
    {"oversized", "empty", "bad_zip", "unsafe_paths", "no_bot_py", "no_class",
     "load_error", "load_raises", "loads"}

\* validator.validate_bot_archive: the error message, or "ok"
validate_bot_archive(payload) ==
    CASE payload = "empty" -> "Upload payload is empty"
      [] payload = "bad_zip" -> "Upload is not a valid zip archive"
      [] payload = "unsafe_paths" -> "Archive contains unsafe paths"
      [] payload = "no_bot_py" ->
            "bot.py must exist at zip root or one top-level folder"
      [] payload = "no_class" -> "bot.py must define a PokerBot class"
      [] OTHER -> "ok"

\* the HTTPException upload_bot raises before it stores anything, or "ok"
upload_rejection(seat_id, filename, payload) ==
    IF seat_id \notin SEAT_ORDER
    THEN [status |-> 400, detail |-> "seat_id must be 1-6"]
    ELSE IF filename \notin {"a.zip", "b.zip"}
    THEN [status |-> 400, detail |-> "Only .zip bot uploads are supported"]
    ELSE IF payload = "oversized"
    THEN [status |-> 413, detail |-> "Upload exceeds 10MB limit"]
    ELSE IF validate_bot_archive(payload) # "ok"
    THEN [status |-> 400, detail |-> validate_bot_archive(payload)]
    ELSE [status |-> 200, detail |-> "ok"]

\* what load_bot_from_zip does with a stored archive
bot_path_of(payload) == IF payload = "loads" THEN "loads" ELSE "load_error"

\* the response once register_bot has returned or raised: BotLoadError is
\* turned into a 400, any other exception leaves upload_bot
upload_response(payload) ==
    CASE payload = "loads" -> [status |-> 200, detail |-> "ok"]
      [] payload = "load_error" -> [status |-> 400, detail |-> "PokerBot.act missing"]
      [] OTHER -> [status |-> 500, detail |-> "Internal Server Error"]

\* no request yet; runtime/uploads and runtime/artifacts are empty
NoUpload ==
    [payload |-> "none", status |-> 0, detail |-> "none", uploads |-> 0,
     artifacts |-> 0]

InitUpload == upload = NoUpload

\* routes.upload_bot: checks, save_upload, then MatchService.register_bot
upload_bot(c, seat_id, filename, payload, now) ==
    /\ cpc[c] = "idle"
    /\ lock = NoThread
    /\ LET rejection == upload_rejection(seat_id, filename, payload)
       IN IF rejection.status # 200
          THEN /\ upload' = [upload EXCEPT !.payload = payload,
                                           !.status = rejection.status,
                                           !.detail = rejection.detail]
               /\ UNCHANGED <<seats, bots>>
          ELSE /\ upload.uploads < MaxUploads
               /\ upload' =
                    [upload EXCEPT !.payload = payload,
                                   !.status = upload_response(payload).status,
                                   !.detail = upload_response(payload).detail,
                                   !.uploads = @ + 1]
               /\ register_bot_locked(seat_id, filename, bot_path_of(payload),
                                      now)
    /\ UNCHANGED <<status, started_at, hands, hand_counter, button_seat,
                   stop_event, loop_thread, lock, wpc, cpc, cjoin, last,
                   files, hook_calls, runtimeVars, hand, norm, auxVars>>

NextUpload ==
    \/ \E c \in DOMAIN cpc, s \in UploadSeats, f \in UploadNames,
          a \in Archives, now \in UploadTimes : upload_bot(c, s, f, a, now)
    \/ \E c \in DOMAIN cpc : reset_match(c)
    \/ \E c \in DOMAIN cpc : JoinDone(c)
    \/ \E c \in DOMAIN cpc : ResetClear(c)

\* ------------------------------------------------------ match-loop thread
\* how one hand ends inside _simulate_hand_locked:
\*   "ok"            play_hand returns and save_hand writes <id>.txt
\*   "engine_error"  play_hand raises
\*   "store_error"   save_hand raises (Path.write_text: open() or write())
HandOutcomes == {"ok", "engine_error", "store_error"}

\* HandRecord carrying the same id whatever the hand counter says
HandRecord_SameId(hand_id, active_seats) ==
    [hand_id |-> 1, active_seats |-> active_seats]

\* HandRecord appended for the hand in flight
HandRecord(hand_id, active_seats) ==
    [hand_id |-> hand_id, active_seats |-> active_seats]

\* _run_match_loop's loop test looping on a set stop signal instead of
\* leaving the loop
WorkerCheck_SpinsOnStop(w) ==
    /\ wpc[w] = "check"
    /\ wpc' = [wpc EXCEPT ![w] = IF stop_event THEN "check" ELSE "lock"]
    /\ UNCHANGED <<matchVars, lock, cpc, cjoin, last, files, hook_calls,
                   nonMatchVars>>

\* _run_match_loop: `while not self._stop_event.is_set()`, reached at thread
\* start and whenever _stop_event.wait(HAND_INTERVAL_SECONDS) returns
WorkerCheck(w) ==
    /\ wpc[w] = "check"
    /\ wpc' = [wpc EXCEPT ![w] = IF stop_event THEN "none" ELSE "lock"]
    /\ UNCHANGED <<matchVars, lock, cpc, cjoin, last, files, hook_calls,
                   nonMatchVars>>

\* the loop body going on unless the match was ended
LoopPlays_UnlessStopped == status # "stopped"

\* the status under which the loop body plays a hand
LoopPlays == status = "running"

\* _run_match_loop: `with self._lock`, the status check, and
\* _simulate_hand_locked up to the call of engine.play_hand
WorkerBeginHandUpTo(w, max_hands) ==
    /\ wpc[w] = "lock"
    /\ lock = NoThread
    /\ IF ~LoopPlays
       THEN /\ wpc' = [wpc EXCEPT ![w] = "none"]
            /\ UNCHANGED <<status, started_at, hand_counter, button_seat, lock>>
       ELSE /\ hand_counter < max_hands
            /\ hand_counter' = hand_counter + 1
            /\ IF Cardinality(ready_seats_locked) < 2
               THEN /\ status' = "waiting"
                    /\ started_at' = "none"
                    /\ wpc' = [wpc EXCEPT ![w] = "check"]
                    /\ UNCHANGED <<button_seat, lock>>
               ELSE /\ button_seat' = next_button_seat(ready_seats_locked)
                    /\ wpc' = [wpc EXCEPT ![w] = "hand"]
                    /\ lock' = w
                    /\ UNCHANGED <<status, started_at>>
    /\ UNCHANGED <<hands, seats, bots, stop_event, loop_thread, cpc, cjoin,
                   last, files, hook_calls, nonMatchVars>>

\* the same, in a match that may start MaxHands hands
WorkerBeginHand(w) == WorkerBeginHandUpTo(w, MaxHands)

\* HandStore.save_hand: a successful write leaves <hand_id>.txt; a write
\* that raises leaves no file (open() failed) or a truncated one (open()
\* created the file and write() or close() failed)
save_hand(hand_id, outcome) ==
    CASE outcome = "ok" -> {files \cup {hand_id}}
      [] outcome = "store_error" -> {files, files \cup {hand_id}}
      [] OTHER -> {files}

\* what _simulate_hand_locked does with the persistent leaderboard once the
\* record is appended
on_hand_completed(calls) == calls

\* _simulate_hand_locked from engine.play_hand to its end, and the release
\* of _lock; _lock was held since WorkerBeginHand, so the active seats are
\* still ready_seats_locked and hand_id is still str(_hand_counter)
WorkerEndHand(w, outcome) ==
    /\ wpc[w] = "hand"
    /\ lock = w
    /\ files' \in save_hand(hand_counter, outcome)
    /\ IF outcome = "ok"
       THEN /\ hands' = Append(hands, HandRecord(hand_counter, ready_seats_locked))
            /\ hook_calls' = on_hand_completed(hook_calls)
            /\ wpc' = [wpc EXCEPT ![w] = "check"]
       ELSE /\ wpc' = [wpc EXCEPT ![w] = "crash"]
            /\ UNCHANGED <<hands, hook_calls>>
    /\ lock' = NoThread
    /\ UNCHANGED <<status, started_at, hand_counter, button_seat, seats, bots,
                   stop_event, loop_thread, cpc, cjoin, last, nonMatchVars>>

\* the status the except-branch writes, given the status it finds
CrashStatus(found) == "waiting"

\* _run_match_loop: `except Exception: with self._lock: ...`
WorkerCrashHandler(w) ==
    /\ wpc[w] = "crash"
    /\ lock = NoThread
    /\ status' = CrashStatus(status)
    /\ started_at' = "none"
    /\ wpc' = [wpc EXCEPT ![w] = "setstop"]
    /\ UNCHANGED <<hands, hand_counter, button_seat, seats, bots, stop_event,
                   loop_thread, lock, cpc, cjoin, last, files, hook_calls,
                   nonMatchVars>>

\* _run_match_loop: `self._stop_event.set(); return` of the except-branch
WorkerSetStop(w) ==
    /\ wpc[w] = "setstop"
    /\ stop_event' = TRUE
    /\ wpc' = [wpc EXCEPT ![w] = "none"]
    /\ UNCHANGED <<status, started_at, hands, hand_counter, button_seat, seats,
                   bots, loop_thread, lock, cpc, cjoin, last, files,
                   hook_calls, nonMatchVars>>

\* ------------------------------------------------------- bots/runtime.py
\* max_workers of _EXECUTOR
PoolSize == 4
\* abandoned work items that may wait in _EXECUTOR's queue
MaxQueued == 1

\* amounts a bot may put in its reply; v carries the number where there is
\* one (tenths for a float)
AmountVals ==
    {[t |-> "missing", v |-> 0],    \* no "amount" key
     [t |-> "int", v |-> 3],        \* 3
     [t |-> "int", v |-> -1],       \* -1
     [t |-> "float", v |-> 29],     \* 2.9
     [t |-> "float", v |-> -15],    \* -1.5
     [t |-> "digits", v |-> 7],     \* "7"
     [t |-> "text", v |-> 0],       \* "abc"
     [t |-> "none", v |-> 0],       \* None
     [t |-> "nan", v |-> 0],        \* float("nan")
     [t |-> "inf", v |-> 0]}        \* float("inf")

\* "action" values of a reply: a known name, an unknown name, not a string
ActionVals ==
    {[t |-> "str", v |-> "raise"], [t |-> "str", v |-> "dance"],
     [t |-> "other", v |-> "none"]}

\* what bot.act (or the "result" payload of the child process) returns
BotValues ==
    {[isdict |-> FALSE, action |-> [t |-> "other", v |-> "none"],
      amount |-> [t |-> "missing", v |-> 0]]}
    \cup {[isdict |-> TRUE, action |-> a, amount |-> m] :
             a \in ActionVals, m \in AmountVals}

\* Python's int(x): truncation toward zero for a float, parsing for a str,
\* and the exception it raises otherwise
int_of(a) ==
    CASE a.t = "int" -> [ok |-> TRUE, v |-> a.v, exc |-> "none"]
      [] a.t = "float" ->
            [ok |-> TRUE,
             v |-> IF a.v >= 0 THEN a.v \div 10 ELSE -((-a.v) \div 10),
             exc |-> "none"]
      [] a.t = "digits" -> [ok |-> TRUE, v |-> a.v, exc |-> "none"]
      [] a.t = "text" -> [ok |-> FALSE, v |-> 0, exc |-> "ValueError"]
      [] a.t = "nan" -> [ok |-> FALSE, v |-> 0, exc |-> "ValueError"]
      [] a.t = "none" -> [ok |-> FALSE, v |-> 0, exc |-> "TypeError"]
      [] a.t = "inf" -> [ok |-> FALSE, v |-> 0, exc |-> "OverflowError"]
      [] OTHER -> [ok |-> TRUE, v |-> 0, exc |-> "none"]

\* runtime._fallback
Fallback(error) ==
    [kind |-> "fallback", action |-> "fold", amount |-> 0, error |-> error]

\* the dict BotRunner.act returns on its last line
Returned(action, amount) ==
    [kind |-> "action", action |-> action, amount |-> amount, error |-> "none"]

\* an exception leaving BotRunner.act
Raised(exc) ==
    [kind |-> "raised", action |-> "none", amount |-> 0, error |-> exc]

\* the exceptions `except (TypeError, ValueError)` of BotRunner.act catches
ActCaught == {"TypeError", "ValueError"}

\* BotRunner.act from `if not isinstance(result, dict)` to its return
act_normalize(result) ==
    IF ~result.isdict THEN Fallback("invalid_response")
    ELSE IF result.action.t # "str" THEN Fallback("invalid_response")
    ELSE IF result.amount.t = "missing" THEN Returned(result.action.v, 0)
    ELSE IF result.amount.t = "int"
         THEN Returned(result.action.v, result.amount.v)
    ELSE IF int_of(result.amount).ok
         THEN Returned(result.action.v, int_of(result.amount).v)
    ELSE IF int_of(result.amount).exc \in ActCaught
         THEN Fallback("invalid_response")
    ELSE Raised(int_of(result.amount).exc)

\* what the bot's act does when a pool thread runs it
Behaviours == {"returns", "raises", "hangs"}

\* BotRunner._act_in_process: the work item runs at once when a thread of
\* _EXECUTOR is idle, and waits in the queue otherwise; future.result
\* gives up after timeout_seconds and leaves the work item where it is
\*   run: "done" (finished in time), "abandoned" (still running),
\*        "queued" (never started before the timeout)
act_in_process(behaviour, value) ==
    IF pool_running >= PoolSize
    THEN [value |-> value, error |-> "timeout", run |-> "queued"]
    ELSE CASE behaviour = "returns" ->
                [value |-> value, error |-> "none", run |-> "done"]
           [] behaviour = "raises" ->
                [value |-> value, error |-> "error:boom", run |-> "done"]
           [] OTHER ->
                [value |-> value, error |-> "timeout", run |-> "abandoned"]

\* outcomes of the child process of BotRunner._act_in_subprocess
SubprocessOutcomes ==
    {"timeout", "launch_failed", "nonzero_exit", "malformed", "error_payload",
     "no_result", "result"}

\* BotRunner._act_in_subprocess
act_in_subprocess(outcome, value) ==
    CASE outcome = "timeout" -> [value |-> value, error |-> "timeout"]
      [] outcome = "launch_failed" ->
            [value |-> value, error |-> "runtime_launch_failed"]
      [] outcome = "nonzero_exit" -> [value |-> value, error |-> "runtime_failure"]
      [] outcome = "malformed" ->
            [value |-> value, error |-> "runtime_malformed_output"]
      [] outcome = "error_payload" -> [value |-> value, error |-> "error:boom"]
      [] outcome = "no_result" ->
            [value |-> value, error |-> "runtime_malformed_output"]
      [] OTHER -> [value |-> value, error |-> "none"]

\* json.dumps(state) of BotRunner.act: fine, raising, or over MAX_STATE_BYTES
StateKinds == {"ok", "unserializable", "too_large"}

\* the reply of a bot that is not asked, or does not answer
NoValue == CHOOSE v \in BotValues : ~v.isdict

\* the calls made: a reply is drawn only for a bot that returns one, and a
\* behaviour only for a bot that is called
InProcessCalls ==
    {<<"ok", "returns", v>> : v \in BotValues}
    \cup {<<"ok", b, NoValue>> : b \in Behaviours \ {"returns"}}
    \cup {<<st, "returns", NoValue>> : st \in StateKinds \ {"ok"}}

SubprocessCalls ==
    {<<"ok", "result", v>> : v \in BotValues}
    \cup {<<"ok", o, NoValue>> : o \in SubprocessOutcomes \ {"result"}}
    \cup {<<st, "result", NoValue>> : st \in StateKinds \ {"ok"}}

InitRuntime ==
    /\ pool_running = 0
    /\ pool_queued = 0
    /\ decide = [mode |-> "none", state |-> "ok", behaviour |-> "returns",
                 value |-> NoValue, result |-> Fallback("none"),
                 invoked |-> FALSE]

\* BotRunner.act measuring the state only after the bot has been called
ActInProcess_ChecksSizeLate(state, behaviour, value) ==
    /\ pool_running >= PoolSize => pool_queued < MaxQueued
    /\ LET r == act_in_process(behaviour, value)
           started == state # "unserializable"
       IN /\ decide' =
                [mode |-> "in_process", state |-> state,
                 behaviour |-> behaviour, value |-> value,
                 invoked |-> started /\ r.run # "queued",
                 result |->
                    CASE state = "unserializable" -> Fallback("invalid_state")
                      [] state = "too_large" -> Fallback("state_too_large")
                      [] r.error # "none" -> Fallback(r.error)
                      [] OTHER -> act_normalize(r.value)]
          /\ pool_running' =
                IF started /\ r.run = "abandoned"
                THEN pool_running + 1 ELSE pool_running
          /\ pool_queued' =
                IF started /\ r.run = "queued"
                THEN pool_queued + 1 ELSE pool_queued
    /\ UNCHANGED <<matchVars, lock, wpc, cpc, cjoin, last, files, hook_calls,
                   hand, norm, upload, auxVars>>

\* BotRunner.act of a runner built with bot= (in-process)
ActInProcess(state, behaviour, value) ==
    /\ pool_running >= PoolSize => pool_queued < MaxQueued
    /\ LET r == act_in_process(behaviour, value)
           started == state = "ok"
       IN /\ decide' =
                [mode |-> "in_process", state |-> state,
                 behaviour |-> behaviour, value |-> value,
                 invoked |-> started /\ r.run # "queued",
                 result |->
                    CASE state = "unserializable" -> Fallback("invalid_state")
                      [] state = "too_large" -> Fallback("state_too_large")
                      [] r.error # "none" -> Fallback(r.error)
                      [] OTHER -> act_normalize(r.value)]
          /\ pool_running' =
                IF started /\ r.run = "abandoned"
                THEN pool_running + 1 ELSE pool_running
          /\ pool_queued' =
                IF started /\ r.run = "queued"
                THEN pool_queued + 1 ELSE pool_queued
    /\ UNCHANGED <<matchVars, lock, wpc, cpc, cjoin, last, files, hook_calls,
                   hand, norm, upload, auxVars>>

\* BotRunner.act of a runner built with bot_archive_path= (child process)
ActInSubprocess(state, outcome, value) ==
    /\ LET r == act_in_subprocess(outcome, value)
       IN decide' =
            [mode |-> "subprocess", state |-> state, behaviour |-> outcome,
             value |-> value, invoked |-> state = "ok" /\ outcome # "launch_failed",
             result |->
                CASE state = "unserializable" -> Fallback("invalid_state")
                  [] state = "too_large" -> Fallback("state_too_large")
                  [] r.error # "none" -> Fallback(r.error)
                  [] OTHER -> act_normalize(r.value)]
    /\ UNCHANGED <<pool_running, pool_queued>>
    /\ UNCHANGED <<matchVars, lock, wpc, cpc, cjoin, last, files, hook_calls,
                   hand, norm, upload, auxVars>>

\* BotRunner.act of a runner with neither bot nor bot_archive_path
ActUnavailable(state) ==
    /\ decide' =
            [mode |-> "unavailable", state |-> state, behaviour |-> "returns",
             value |-> NoValue, invoked |-> FALSE,
             result |->
                CASE state = "unserializable" -> Fallback("invalid_state")
                  [] state = "too_large" -> Fallback("state_too_large")
                  [] OTHER -> Fallback("runtime_unavailable")]
    /\ UNCHANGED <<pool_running, pool_queued>>
    /\ UNCHANGED <<matchVars, lock, wpc, cpc, cjoin, last, files, hook_calls,
                   hand, norm, upload, auxVars>>

\* a bot.act abandoned by its caller returns at last; its _EXECUTOR thread
\* takes the next queued work item, or goes idle
AbandonedEnds ==
    /\ pool_running > 0
    /\ IF pool_queued > 0
       THEN pool_queued' = pool_queued - 1 /\ UNCHANGED pool_running
       ELSE pool_running' = pool_running - 1 /\ UNCHANGED pool_queued
    /\ UNCHANGED decide
    /\ UNCHANGED <<matchVars, lock, wpc, cpc, cjoin, last, files, hook_calls,
                   hand, norm, upload, auxVars>>

NextDecide ==
    \/ \E call \in InProcessCalls : ActInProcess(call[1], call[2], call[3])
    \/ \E call \in SubprocessCalls : ActInSubprocess(call[1], call[2], call[3])
    \/ \E st \in StateKinds : ActUnavailable(st)
    \/ AbandonedEnds

\* ------------------------------------------------------- engine/game.py
\* PokerEngine's amounts in small units: the defaults are 10000 / 50 / 100
\* cents, kept here in the same order small blind < big blind <= stack
starting_stack_cents == 5
small_blind_cents == 1
big_blind_cents == 2
\* play_hand is called with bots on seats among 1..MaxHandSeats
MaxHandSeats == 3
\* hand strengths at showdown are drawn from 1..MaxRank (ties included)
MaxRank == 2

HandSeats == 1..MaxHandSeats
Streets == <<"preflop", "flop", "turn", "river">>
\* cards on the board when a street's betting starts
BoardCards == [preflop |-> 0, flop |-> 3, turn |-> 4, river |-> 5]

Max(S) == CHOOSE x \in S : \A y \in S : x >= y

RECURSIVE SumOver(_, _)
\* sum(f[s] for s in S)
SumOver(f, S) ==
    IF S = {} THEN 0
    ELSE LET s == CHOOSE x \in S : TRUE IN f[s] + SumOver(f, S \ {s})

\* order.index(seat) for order = order_seats(...), ascending seat ids
order_index(order, seat) == Cardinality({t \in order : t < seat})
\* order[i]
order_at(order, i) == CHOOSE s \in order : order_index(order, s) = i

\* legal_actions
legal_actions(to_call, stack, current_bet) ==
    IF to_call > 0
    THEN {"fold", "call"} \cup (IF stack > to_call THEN {"raise"} ELSE {})
    ELSE {"check"} \cup (IF stack > 0 THEN {"bet"} ELSE {})

\* min_raise_to
min_raise_to(current_bet, min_raise) ==
    IF current_bet = 0 THEN min_raise ELSE current_bet + min_raise

\* a normalized action; exc names an exception that left normalize_action
Normalized(action, amount) == [action |-> action, amount |-> amount,
                               exc |-> "none"]

\* _fallback_action folding whatever is owed
fallback_action_AlwaysFolds(to_call) == Normalized("fold", 0)

\* _fallback_action
fallback_action(to_call) ==
    IF to_call > 0 THEN Normalized("fold", 0) ELSE Normalized("check", 0)

\* the action names normalize_action knows
KnownActions == {"fold", "check", "call", "bet", "raise"}
\* the exceptions `except (TypeError, ValueError)` of normalize_action catches
NormalizeCaught == {"TypeError", "ValueError"}

\* the renaming step of normalize_action (bet <-> raise, check <-> call)
rename_action(action, to_call, current_bet) ==
    IF action = "bet" /\ current_bet > 0 THEN "raise"
    ELSE IF action = "raise" /\ current_bet = 0 THEN "bet"
    ELSE IF action = "check" /\ to_call > 0 THEN "call"
    ELSE IF action = "call" /\ to_call <= 0 THEN "check"
    ELSE action

\* the bet / raise branch of normalize_action without its
\* `if desired_total > max_total` clamp
normalize_target_NoCap(action, amount, to_call, current_bet, mrt, stack, bet) ==
    LET max_total == bet + stack
        degraded == IF to_call > 0
                    THEN Normalized("call", IF to_call < stack THEN to_call
                                            ELSE stack)
                    ELSE Normalized("check", 0)
        parsed == int_of(amount)
        desired0 == IF parsed.ok THEN parsed.v ELSE mrt
        desired1 == IF desired0 < mrt
                    THEN (IF max_total >= mrt THEN mrt ELSE max_total)
                    ELSE desired0
    IN IF max_total <= current_bet THEN degraded
       ELSE IF ~parsed.ok /\ parsed.exc \notin NormalizeCaught
            THEN [action |-> "none", amount |-> 0, exc |-> parsed.exc]
       ELSE IF desired1 <= current_bet THEN degraded
       ELSE Normalized(action, desired1)

\* the `if action in {"bet", "raise"}` branch of normalize_action
normalize_target(action, amount, to_call, current_bet, mrt, stack, bet) ==
    LET max_total == bet + stack
        degraded == IF to_call > 0
                    THEN Normalized("call", IF to_call < stack THEN to_call
                                            ELSE stack)
                    ELSE Normalized("check", 0)
        parsed == int_of(amount)
        desired0 == IF parsed.ok THEN parsed.v ELSE mrt
        desired1 == IF desired0 < mrt
                    THEN (IF max_total >= mrt THEN mrt ELSE max_total)
                    ELSE desired0
        desired2 == IF desired1 > max_total THEN max_total ELSE desired1
    IN IF max_total <= current_bet THEN degraded
       ELSE IF ~parsed.ok /\ parsed.exc \notin NormalizeCaught
            THEN [action |-> "none", amount |-> 0, exc |-> parsed.exc]
       ELSE IF desired2 <= current_bet THEN degraded
       ELSE Normalized(action, desired2)

\* normalize_action; raw is [isdict, action, amount] with amount as in
\* AmountVals ("missing": no "amount" key, read as 0)
normalize_action(raw, to_call, current_bet, mrt, stack, bet, legal) ==
    IF ~raw.isdict THEN fallback_action(to_call)
    ELSE IF raw.action \notin KnownActions THEN fallback_action(to_call)
    ELSE LET action == rename_action(raw.action, to_call, current_bet)
             amount == IF raw.amount.t = "missing"
                       THEN [t |-> "int", v |-> 0] ELSE raw.amount
         IN IF action \notin legal THEN fallback_action(to_call)
            ELSE IF action = "fold"
                 THEN (IF to_call = 0 THEN Normalized("check", 0)
                       ELSE Normalized("fold", 0))
            ELSE IF action = "check" THEN Normalized("check", 0)
            ELSE IF action = "call"
                 THEN Normalized("call", IF to_call < stack THEN to_call
                                         ELSE stack)
            ELSE normalize_target(action, amount, to_call, current_bet, mrt,
                                  stack, bet)

\* _next_pending_seat stepping to the next seat of the order, pending or not
next_pending_seat_AnySeat(current_seat, order, pending) ==
    IF pending = {} THEN NoSeat
    ELSE IF \E s \in order : s > current_seat
         THEN Min({s \in order : s > current_seat})
         ELSE Min(order)

\* _next_pending_seat: the first pending seat clockwise after current_seat
\* (current_seat itself last); NoSeat is None
next_pending_seat(current_seat, order, pending) ==
    IF pending = {} THEN NoSeat
    ELSE IF \E s \in pending : s > current_seat
         THEN Min({s \in pending : s > current_seat})
         ELSE Min(pending)

\* _blind_positions without its two-seat case: the small blind is always
\* the seat after the button
blind_positions_HeadsUpAsRing(active_seats, button) ==
    LET n == Cardinality(active_seats)
        button_index == order_index(active_seats, button)
    IN [small_blind |-> order_at(active_seats, (button_index + 1) % n),
        big_blind |-> order_at(active_seats, (button_index + 2) % n),
        preflop_start |-> order_at(active_seats, (button_index + 3) % n),
        postflop_start |-> order_at(active_seats, (button_index + 1) % n)]

\* PokerEngine._blind_positions
blind_positions(active_seats, button) ==
    LET n == Cardinality(active_seats)
        button_index == order_index(active_seats, button)
    IN IF n = 2
       THEN [small_blind |-> button,
             big_blind |-> order_at(active_seats, (button_index + 1) % 2),
             preflop_start |-> button,
             postflop_start |-> order_at(active_seats, (button_index + 1) % 2)]
       ELSE [small_blind |-> order_at(active_seats, (button_index + 1) % n),
             big_blind |-> order_at(active_seats, (button_index + 2) % n),
             preflop_start |-> order_at(active_seats, (button_index + 3) % n),
             postflop_start |-> order_at(active_seats, (button_index + 1) % n)]

\* the locals of play_hand before any hand is played
\*   events: the ActionEvents the latest step appended to `actions`
\*   pc: "idle" | "betting" (a bot's reply is awaited) | "showdown" (the
\*       position of the _resolve_showdown call) | "raised" | "done"
NoHand ==
    [pc |-> "idle", active_seats |-> {}, button |-> NoSeat,
     small_blind |-> NoSeat, big_blind |-> NoSeat, postflop_start |-> NoSeat,
     street |-> "preflop", board |-> 0, stacks |-> <<>>, bets |-> <<>>,
     contributions |-> <<>>, pot |-> 0, current_bet |-> 0, min_raise |-> 0,
     folded |-> {}, pending |-> {}, seat |-> NoSeat, ranks |-> <<>>,
     winners |-> {}, deltas |-> <<>>, ending |-> "none", events |-> <<>>]

\* ActionEvent
ActionEvent(seat, action, amount, street) ==
    [seat |-> seat, action |-> action, amount |-> amount, street |-> street]

\* _post_blind without its `contributions[seat] += actual`
post_blind_SkipsContribution(h, seat, amount) ==
    LET actual == IF amount < h.stacks[seat] THEN amount ELSE h.stacks[seat]
    IN [h EXCEPT !.stacks[seat] = @ - actual,
                 !.bets[seat] = @ + actual,
                 !.pot = @ + actual,
                 !.events = Append(@, ActionEvent(seat, "blind", actual,
                                                  "preflop"))]

\* PokerEngine._post_blind, with `pot +=` of its caller
post_blind(h, seat, amount) ==
    LET actual == IF amount < h.stacks[seat] THEN amount ELSE h.stacks[seat]
    IN [h EXCEPT !.stacks[seat] = @ - actual,
                 !.bets[seat] = @ + actual,
                 !.contributions[seat] = @ + actual,
                 !.pot = @ + actual,
                 !.events = Append(@, ActionEvent(seat, "blind", actual,
                                                  "preflop"))]

\* PokerEngine._no_actionable_seats
no_actionable_seats(h) ==
    \A seat \in h.active_seats : seat \in h.folded \/ h.stacks[seat] <= 0

\* _finalize_folded_hand paying the winner the whole pot on top of the
\* stake put in (the winner's own contribution is not subtracted)
finalize_folded_hand_KeepsStake(h, winner) ==
    LET payouts == [seat \in h.active_seats |->
                       IF seat = winner
                       THEN SumOver(h.contributions, h.active_seats) ELSE 0]
    IN [h EXCEPT !.pc = "done", !.ending = "fold", !.winners = {winner},
                 !.deltas = [seat \in h.active_seats |->
                                IF seat = winner THEN payouts[seat]
                                ELSE payouts[seat] - h.contributions[seat]]]

\* PokerEngine._finalize_folded_hand
finalize_folded_hand(h, winner) ==
    LET payouts == [seat \in h.active_seats |->
                       IF seat = winner
                       THEN SumOver(h.contributions, h.active_seats) ELSE 0]
    IN [h EXCEPT !.pc = "done", !.ending = "fold", !.winners = {winner},
                 !.deltas = [seat \in h.active_seats |->
                                payouts[seat] - h.contributions[seat]]]

\* level_payout without the remainder chips (a rounding-down split)
level_payout_DropsRemainder(payouts, winners, slice_amount) ==
    [seat \in DOMAIN payouts |->
        IF seat \in winners
        THEN payouts[seat] + (slice_amount \div Cardinality(winners))
        ELSE payouts[seat]]

\* one slice of _calculate_payouts shared among its winners: payout_each to
\* each, and one more to the first `remainder` winners in seat order
level_payout(payouts, winners, slice_amount) ==
    LET payout_each == slice_amount \div Cardinality(winners)
        remainder == slice_amount % Cardinality(winners)
    IN [seat \in DOMAIN payouts |->
           IF seat \in winners
           THEN payouts[seat] + payout_each
                + (IF order_index(winners, seat) < remainder THEN 1 ELSE 0)
           ELSE payouts[seat]]

RECURSIVE payout_levels(_, _, _, _, _)
\* the `for level in levels` loop of _calculate_payouts
payout_levels(levels, previous, payouts, contributions, ranks) ==
    IF levels = {} THEN payouts
    ELSE LET level == Min(levels)
             rest == levels \ {level}
             involved == {seat \in DOMAIN contributions :
                             contributions[seat] >= level}
             slice_amount == (level - previous) * Cardinality(involved)
             eligible == involved \cap DOMAIN ranks
             best_rank == Max({ranks[seat] : seat \in eligible})
             winners == {seat \in eligible : ranks[seat] = best_rank}
         IN IF level <= previous
            THEN payout_levels(rest, previous, payouts, contributions, ranks)
            ELSE IF involved = {} \/ eligible = {}
            THEN payout_levels(rest, level, payouts, contributions, ranks)
            ELSE payout_levels(rest, level,
                               level_payout(payouts, winners, slice_amount),
                               contributions, ranks)

\* PokerEngine._calculate_payouts
calculate_payouts(contributions, ranks) ==
    payout_levels({contributions[seat] : seat \in DOMAIN contributions} \ {0},
                  0, [seat \in DOMAIN contributions |-> 0],
                  contributions, ranks)

\* PokerEngine._resolve_showdown; ranks gives evaluate_best_hand of each
\* seat still in the hand
resolve_showdown(h, ranks) ==
    LET best_rank == Max({ranks[seat] : seat \in DOMAIN ranks})
        payouts == calculate_payouts(h.contributions, ranks)
    IN [h EXCEPT !.pc = "done", !.ending = "showdown", !.ranks = ranks,
                 !.winners = {seat \in DOMAIN ranks : ranks[seat] = best_rank},
                 !.deltas = [seat \in h.active_seats |->
                                payouts[seat] - h.contributions[seat]]]

\* the head of _run_betting_round: the seats to ask, and the first of them
begin_round(h, street, starting_seat) ==
    LET active == h.active_seats \ h.folded
        pending == {seat \in active : h.stacks[seat] > 0}
    IN [h EXCEPT !.street = street, !.board = BoardCards[street],
                 !.pending = pending,
                 !.seat = IF pending = {} THEN NoSeat
                          ELSE IF starting_seat \in pending THEN starting_seat
                          ELSE next_pending_seat(starting_seat,
                                                 h.active_seats, pending)]

\* the street after a street
next_street(street) ==
    CASE street = "preflop" -> "flop"
      [] street = "flop" -> "turn"
      [] OTHER -> "river"

RECURSIVE after_round(_, _)
\* play_hand after a _run_betting_round call returned folded_winner (NoSeat
\* is None): fold-out, run-out to a showdown, showdown after the river, or
\* the next street's round
after_round(h, folded_winner) ==
    IF folded_winner # NoSeat THEN finalize_folded_hand(h, folded_winner)
    ELSE IF no_actionable_seats(h) THEN [h EXCEPT !.pc = "showdown", !.board = 5]
    ELSE IF h.street = "river" THEN [h EXCEPT !.pc = "showdown"]
    ELSE LET r == begin_round(
                     [h EXCEPT !.bets = [seat \in h.active_seats |-> 0],
                               !.current_bet = 0,
                               !.min_raise = big_blind_cents],
                     next_street(h.street), h.postflop_start)
         IN IF r.pending = {} THEN after_round(r, NoSeat) ELSE r

\* the tail of the loop body of _run_betting_round: return None when no
\* seat is pending, else move to the next pending seat
next_turn(h) ==
    IF h.pending = {} THEN after_round(h, NoSeat)
    ELSE [h EXCEPT !.seat = next_pending_seat(h.seat, h.active_seats,
                                                h.pending)]

\* the pending set once a call re-opens the action like a raise does
pending_after_CallReopens(h, seat, action) ==
    IF action \in {"bet", "raise", "call"}
    THEN {s \in (h.active_seats \ h.folded) \ {seat} : h.stacks[s] > 0}
    ELSE h.pending \ {seat}

\* the pending set of _run_betting_round once seat has acted: a bet or raise
\* asks every other seat in the hand with chips again, any other action
\* discards the seat that acted
pending_after(h, seat, action) ==
    IF action \in {"bet", "raise"}
    THEN {s \in (h.active_seats \ h.folded) \ {seat} : h.stacks[s] > 0}
    ELSE h.pending \ {seat}

\* one pass of the loop body of _run_betting_round for the reply raw_action
\* of the seat asked, followed by what play_hand does when the round returns
betting_step(h, raw_action) ==
    LET seat == h.seat
        stack == h.stacks[seat]
        to_call == h.current_bet - h.bets[seat]
        legal == legal_actions(to_call, stack, h.current_bet)
        n == normalize_action(raw_action, to_call, h.current_bet,
                              min_raise_to(h.current_bet, h.min_raise),
                              stack, h.bets[seat], legal)
    IN CASE n.exc # "none" -> [h EXCEPT !.pc = "raised"]
         [] n.action = "fold" ->
              LET f == [h EXCEPT !.folded = @ \cup {seat},
                                 !.pending = @ \ {seat},
                                 !.events = <<ActionEvent(seat, "fold", 0,
                                                          h.street)>>]
                  active == f.active_seats \ f.folded
              IN IF Cardinality(active) = 1
                 THEN after_round(f, CHOOSE s \in active : TRUE)
                 ELSE next_turn(f)
         [] n.action = "check" ->
              next_turn([h EXCEPT !.pending = pending_after(h, seat, "check"),
                                  !.events = <<ActionEvent(seat, "check", 0,
                                                           h.street)>>])
         [] n.action = "call" ->
              LET delta == IF n.amount < stack THEN n.amount ELSE stack
              IN next_turn([h EXCEPT !.stacks[seat] = @ - delta,
                                     !.bets[seat] = @ + delta,
                                     !.contributions[seat] = @ + delta,
                                     !.pot = @ + delta,
                                     !.pending = pending_after(h, seat, "call"),
                                     !.events = <<ActionEvent(seat, "call",
                                                     delta, h.street)>>])
         [] OTHER ->
              LET wanted == IF n.amount - h.bets[seat] > 0
                            THEN n.amount - h.bets[seat] ELSE 0
                  delta == IF wanted < stack THEN wanted ELSE stack
                  raise_size == h.bets[seat] + delta - h.current_bet
              IN next_turn(
                    [h EXCEPT !.stacks[seat] = @ - delta,
                              !.bets[seat] = @ + delta,
                              !.contributions[seat] = @ + delta,
                              !.pot = @ + delta,
                              !.current_bet = h.bets[seat] + delta,
                              !.min_raise = IF raise_size > 0 /\ raise_size > @
                                            THEN raise_size ELSE @,
                              !.pending = pending_after(h, seat, n.action),
                              !.events = <<ActionEvent(seat, n.action, delta,
                                                       h.street)>>])

\* play_hand up to the first _run_betting_round call: seats in order, the
\* button, the blinds, the stacks
deal_hand(bot_seats, button) ==
    LET btn == IF button \in bot_seats THEN button ELSE Min(bot_seats)
        pos == blind_positions(bot_seats, btn)
        start == [NoHand EXCEPT
                    !.pc = "betting", !.active_seats = bot_seats,
                    !.button = btn, !.small_blind = pos.small_blind,
                    !.big_blind = pos.big_blind,
                    !.postflop_start = pos.postflop_start,
                    !.stacks = [seat \in bot_seats |-> starting_stack_cents],
                    !.bets = [seat \in bot_seats |-> 0],
                    !.contributions = [seat \in bot_seats |-> 0]]
        blinds == post_blind(post_blind(start, pos.small_blind,
                                        small_blind_cents),
                             pos.big_blind, big_blind_cents)
        r == begin_round([blinds EXCEPT
                            !.current_bet = blinds.bets[pos.big_blind],
                            !.min_raise = big_blind_cents],
                         "preflop", pos.preflop_start)
    IN IF r.pending = {} THEN after_round(r, NoSeat) ELSE r

\* the replies BotRunner.act hands to the engine: a dict with an action
\* string and an int amount (a fallback is fold / 0)
ReplyActions == KnownActions \cup {"dance"}
ReplyAmounts == 0..(starting_stack_cents + 1)
HandReplies ==
    {[isdict |-> TRUE, action |-> a, amount |-> [t |-> "int", v |-> m]] :
        a \in ReplyActions, m \in ReplyAmounts}

\* play_hand goes on to its return: at the _resolve_showdown call the
\* strengths of the dealt cards decide, otherwise the hand is as computed
Concluded(h) ==
    IF h.pc = "showdown"
    THEN \E ranks \in [h.active_seats \ h.folded -> 1..MaxRank] :
            hand' = resolve_showdown(h, ranks)
    ELSE hand' = h

nonHandVars == <<matchVars, lock, wpc, cpc, cjoin, last, files, hook_calls,
                 runtimeVars, norm, upload, auxVars>>

InitHand == hand = NoHand

\* PokerEngine.play_hand is called (it raises with fewer than two bots)
play_hand(bot_seats, button) ==
    /\ hand.pc \in {"idle", "done"}
    /\ Cardinality(bot_seats) >= 2
    /\ Concluded(deal_hand(bot_seats, button))
    /\ UNCHANGED nonHandVars

\* the bot of the seat asked replies, and play_hand runs to its next request
run_betting_round(raw_action) ==
    /\ hand.pc = "betting"
    /\ Concluded(betting_step(hand, raw_action))
    /\ UNCHANGED nonHandVars

NextHand ==
    \/ \E bot_seats \in SUBSET HandSeats, button \in HandSeats :
          play_hand(bot_seats, button)
    \/ \E raw_action \in HandReplies : run_betting_round(raw_action)

\* the replies of bots handed to play_hand as they are: also a raise whose
\* amount is float("inf")
AnyReplies ==
    HandReplies
    \cup {[isdict |-> TRUE, action |-> "raise", amount |-> [t |-> "inf", v |-> 0]]}

NextHandAny ==
    \/ \E bot_seats \in SUBSET HandSeats, button \in HandSeats :
          play_hand(bot_seats, button)
    \/ \E raw_action \in AnyReplies : run_betting_round(raw_action)

\* ------------------------------------------- normalize_action on its own
\* the raw replies normalize_action may be given: not a dict, or a dict
\* whose "action" is a known name, another string ("dance") or absent
\* ("none"), with any of the amounts of AmountVals and the ints around the
\* stack
RawActionNames == KnownActions \cup {"dance", "none"}
RawAmounts ==
    {[t |-> "int", v |-> m] : m \in -1..(starting_stack_cents + 1)}
    \cup {a \in AmountVals : a.t # "int"}
RawReplies ==
    {[isdict |-> FALSE, action |-> "none",
      amount |-> [t |-> "missing", v |-> 0]]}
    \cup {[isdict |-> TRUE, action |-> a, amount |-> m] :
             a \in RawActionNames, m \in RawAmounts}

\* the round contexts _run_betting_round builds for the seat it asks: the
\* seat has chips (it is pending), its street bet is at most current_bet,
\* bet and stack together are at most the starting stack, and min_raise is
\* at least the big blind
RoundContexts ==
    {[stack |-> stack, bet |-> bet, current_bet |-> current_bet,
      min_raise |-> min_raise] :
        stack \in 1..starting_stack_cents,
        bet \in 0..starting_stack_cents,
        current_bet \in 0..starting_stack_cents,
        min_raise \in big_blind_cents..starting_stack_cents}

NoCall ==
    [pc |-> "idle", raw |-> CHOOSE r \in RawReplies : ~r.isdict, to_call |-> 0,
     current_bet |-> 0, min_raise_to |-> 0, stack |-> 0, bet |-> 0,
     legal |-> {}, result |-> Normalized("none", 0)]

InitNormalize == norm = NoCall

nonNormalizeVars == <<matchVars, lock, wpc, cpc, cjoin, last, files,
                      hook_calls, runtimeVars, hand, upload, auxVars>>

\* _run_betting_round lines 438-469: to_call, legal and min_raise_to are
\* computed from the context and normalize_action is called with them
NormalizeCall(raw, ctx) ==
    /\ norm.pc = "idle"
    /\ ctx.bet <= ctx.current_bet
    /\ ctx.bet + ctx.stack <= starting_stack_cents
    /\ LET to_call == ctx.current_bet - ctx.bet
           legal == legal_actions(to_call, ctx.stack, ctx.current_bet)
           mrt == min_raise_to(ctx.current_bet, ctx.min_raise)
       IN norm' = [pc |-> "returned", raw |-> raw, to_call |-> to_call,
                   current_bet |-> ctx.current_bet, min_raise_to |-> mrt,
                   stack |-> ctx.stack, bet |-> ctx.bet, legal |-> legal,
                   result |-> normalize_action(raw, to_call, ctx.current_bet,
                                               mrt, ctx.stack, ctx.bet, legal)]
    /\ UNCHANGED nonNormalizeVars

\* the caller has used the result; the next call may come
NormalizeReturn ==
    /\ norm.pc = "returned"
    /\ norm' = NoCall
    /\ UNCHANGED nonNormalizeVars

NextNormalize ==
    \/ /\ norm.pc = "idle"
       /\ \E raw \in RawReplies, ctx \in RoundContexts :
             NormalizeCall(raw, ctx)
    \/ NormalizeReturn

\* ------------------------------------------ MatchService.list_hands
\* records _hands may hold when list_hands is called
MaxListing == 4

\* an optional int argument: None, or the int given
NoInt == [given |-> FALSE, v |-> 0]
SomeInt(v) == [given |-> TRUE, v |-> v]

\* the ids of S in increasing order
RECURSIVE sorted_ids(_)
sorted_ids(S) == IF S = {} THEN <<>> ELSE <<Min(S)>> \o sorted_ids(S \ {Min(S)})

\* the contents of _hands, as hand ids: increasing, with gaps where a hand
\* raised
ListedHands == {sorted_ids(S) : S \in SUBSET (1..MaxListing)}

\* Python's seq[start:end] for start >= 0: the items at 0-based indices
\* start .. min(end, len(seq)) - 1
slice(seq, start, end) ==
    LET stop == Min({end, Len(seq)})
    IN IF stop <= start THEN <<>>
       ELSE [k \in 1..(stop - start) |-> seq[start + k]]

\* reversed(seq)
reversed(seq) == [k \in 1..Len(seq) |-> seq[Len(seq) + 1 - k]]

\* MatchService.list_hands losing the newest record of each page
list_hands_DropsNewest(hs, limit, page_arg, page_size_arg, max_hand_id) ==
    LET total_hands == Len(hs)
        snapshot_count == IF ~max_hand_id.given THEN total_hands
                          ELSE Min({max_hand_id.v, total_hands})
        page_size == IF limit.given THEN limit.v ELSE page_size_arg
        page == IF limit.given THEN 1 ELSE page_arg
        start == Max({snapshot_count - (page * page_size), 0})
        end == snapshot_count - (page - 1) * page_size - 1
    IN IF page_size < 1 \/ snapshot_count = 0 THEN <<>>
       ELSE IF end <= 0 \/ start >= snapshot_count THEN <<>>
       ELSE reversed(slice(hs, start, end))

\* MatchService.list_hands over the hand list hs; a record is shown by its id
list_hands(hs, limit, page_arg, page_size_arg, max_hand_id) ==
    LET total_hands == Len(hs)
        snapshot_count == IF ~max_hand_id.given THEN total_hands
                          ELSE Min({max_hand_id.v, total_hands})
        page_size == IF limit.given THEN limit.v ELSE page_size_arg
        page == IF limit.given THEN 1 ELSE page_arg
        start == Max({snapshot_count - (page * page_size), 0})
        end == snapshot_count - (page - 1) * page_size
    IN IF page_size < 1 \/ snapshot_count = 0 THEN <<>>
       ELSE IF end <= 0 \/ start >= snapshot_count THEN <<>>
       ELSE reversed(slice(hs, start, end))

\* the arguments list_hands is called with
ListLimits == {NoInt, SomeInt(2)}
ListPages == (-1)..(MaxListing + 1)
ListPageSizes == (-1)..(MaxListing + 1)
ListMaxHandIds == {NoInt} \cup {SomeInt(v) : v \in (-1)..(MaxListing + 1)}

NoListing ==
    [pc |-> "idle", hands |-> <<>>, limit |-> NoInt, page |-> 1,
     page_size |-> 1, max_hand_id |-> NoInt, result |-> <<>>]

InitListing == listing = NoListing

nonListingVars == <<matchVars, lock, wpc, cpc, cjoin, last, files,
                    hook_calls, runtimeVars, hand, norm, upload, archive,
                    auth, evaluation>>

\* list_hands called while _hands holds hs
ListHandsCall(hs, limit, page, page_size, max_hand_id) ==
    /\ listing.pc = "idle"
    /\ listing' = [pc |-> "returned", hands |-> hs, limit |-> limit,
                   page |-> page, page_size |-> page_size,
                   max_hand_id |-> max_hand_id,
                   result |-> list_hands(hs, limit, page, page_size,
                                         max_hand_id)]
    /\ UNCHANGED nonListingVars

\* the caller has used the page; the next call may come
ListHandsReturn ==
    /\ listing.pc = "returned"
    /\ listing' = NoListing
    /\ UNCHANGED nonListingVars

NextListing ==
    \/ /\ listing.pc = "idle"
       /\ \E hs \in ListedHands, limit \in ListLimits, page \in ListPages,
             page_size \in ListPageSizes, max_hand_id \in ListMaxHandIds :
             ListHandsCall(hs, limit, page, page_size, max_hand_id)
    \/ ListHandsReturn

\* ------------------------------------- bots/validator.py, bots/loader.py
\* a member of an archive: the parts of its path, and whether the entry is
\* a directory entry (its name ends with "/")
Member(parts, dir) == [parts |-> parts, dir |-> dir]

\* the members an archive is made of
ArchiveMembers ==
    {Member(<<"bot.py">>, FALSE), Member(<<"bot.py">>, TRUE),
     Member(<<"a", "bot.py">>, FALSE), Member(<<"b", "bot.py">>, FALSE),
     Member(<<"a", "b", "bot.py">>, FALSE), Member(<<"a", "util.py">>, FALSE),
     Member(<<"main.py">>, FALSE)}

\* validator.select_bot_member: the member chosen, or the reason for none
select_bot_member(names) ==
    LET candidates ==
            {m \in names : ~m.dir /\ m.parts[Len(m.parts)] = "bot.py"}
        single_folder_candidates == {m \in candidates : Len(m.parts) = 2}
    IN IF candidates = {}
       THEN [member |-> <<>>,
             error |-> "bot.py must exist at zip root or one top-level folder"]
       ELSE IF Member(<<"bot.py">>, FALSE) \in candidates
       THEN [member |-> <<"bot.py">>, error |-> "none"]
       ELSE IF Cardinality(single_folder_candidates) = 1
       THEN [member |-> (CHOOSE m \in single_folder_candidates : TRUE).parts,
             error |-> "none"]
       ELSE IF Cardinality(single_folder_candidates) > 1
       THEN [member |-> <<>>,
             error |-> "Archive contains multiple bot.py candidates"]
       ELSE [member |-> <<>>,
             error |-> "bot.py must exist at zip root or one top-level folder"]

\* loader._resolve_bot_entrypoint over the extracted files; root_bot.exists()
\* is true of a directory called bot.py as well, nested ones must be files
resolve_bot_entrypoint(names) ==
    LET nested_bots ==
            {m \in names : ~m.dir /\ Len(m.parts) = 2 /\ m.parts[2] = "bot.py"}
    IN IF \E m \in names : m.parts = <<"bot.py">>
       THEN [member |-> <<"bot.py">>, error |-> "none"]
       ELSE IF Cardinality(nested_bots) = 1
       THEN [member |-> (CHOOSE m \in nested_bots : TRUE).parts,
             error |-> "none"]
       ELSE IF Cardinality(nested_bots) > 1
       THEN [member |-> <<>>,
             error |-> "Archive contains multiple bot.py candidates"]
       ELSE [member |-> <<>>,
             error |-> "bot.py must exist at zip root or one top-level folder"]

\* --------------------------------------------- bot.py inside the archive
\* protocol.py constants
LEGACY_PROTOCOL_VERSION == "1.0"
PROTOCOL_V2 == "2.0"
SUPPORTED_DECLARED_PROTOCOLS == {PROTOCOL_V2}

\* what bot.py assigns to BOT_PROTOCOL_VERSION or PokerBot.protocol_version:
\* nothing, something that is no string literal, or a string literal
NoProtocol == "none"
NotLiteral == "not_literal"
Declarations == {NoProtocol, NotLiteral, PROTOCOL_V2, "9.9"}

\* the text of bot.py (every bot.py of one archive has the same text):
\*   syntax_error    ast.parse and the import raise SyntaxError
\*   module_raises   the module body raises while it is executed
\*   has_class       a top-level class PokerBot
\*   init_raises     PokerBot() raises
\*   has_act         PokerBot instances have act
BotSources ==
    [module_protocol : Declarations, class_protocol : Declarations,
     syntax_error : BOOLEAN, module_raises : BOOLEAN, has_class : BOOLEAN,
     init_raises : BOOLEAN, has_act : BOOLEAN]

\* a bot.py that validates and loads, declaring nothing
GoodSource ==
    [module_protocol |-> NoProtocol, class_protocol |-> NoProtocol,
     syntax_error |-> FALSE, module_raises |-> FALSE, has_class |-> TRUE,
     init_raises |-> FALSE, has_act |-> TRUE]

\* protocol._extract_module_protocol / _literal_string
extract_module_protocol(src) ==
    IF src.module_protocol = NotLiteral
    THEN [value |-> NoProtocol,
          error |-> "BOT_PROTOCOL_VERSION must be a string literal"]
    ELSE [value |-> src.module_protocol, error |-> "none"]

\* protocol._extract_class_protocol / _literal_string
extract_class_protocol(src) ==
    IF ~src.has_class
    THEN [value |-> NoProtocol, error |-> "none"]
    ELSE IF src.class_protocol = NotLiteral
    THEN [value |-> NoProtocol,
          error |-> "PokerBot.protocol_version must be a string literal"]
    ELSE [value |-> src.class_protocol, error |-> "none"]

\* protocol.resolve_declared_protocol
resolve_declared_protocol(module_protocol, class_protocol) ==
    IF module_protocol # NoProtocol THEN module_protocol ELSE class_protocol

\* protocol.extract_declared_protocol_from_ast
extract_declared_protocol_from_ast(src) ==
    LET m == extract_module_protocol(src)
        c == extract_class_protocol(src)
        declared == resolve_declared_protocol(m.value, c.value)
    IN IF m.error # "none"
       THEN [module_protocol |-> NoProtocol, class_protocol |-> NoProtocol,
             error |-> m.error]
       ELSE IF c.error # "none"
       THEN [module_protocol |-> NoProtocol, class_protocol |-> NoProtocol,
             error |-> c.error]
       ELSE IF declared = NoProtocol
       THEN [module_protocol |-> m.value, class_protocol |-> c.value,
             error |-> "none"]
       ELSE IF declared \notin SUPPORTED_DECLARED_PROTOCOLS
       THEN [module_protocol |-> m.value, class_protocol |-> c.value,
             error |-> "Unsupported protocol version"]
       ELSE [module_protocol |-> m.value, class_protocol |-> c.value,
             error |-> "none"]

\* a member whose path leaves the archive
UnsafeMember == Member(<<"..", "bot.py">>, FALSE)

\* security.validate_archive_infos over the member names: the first error,
\* or "ok" (sizes and symlinks are within the limits)
validate_archive_infos(names) ==
    IF \E m \in names : \E i \in 1..Len(m.parts) : m.parts[i] \in {"", ".", ".."}
    THEN "Archive contains unsafe paths"
    ELSE IF \E m, n \in names : m # n /\ m.parts = n.parts
    THEN "Archive contains duplicate entry"
    ELSE "ok"

\* validator.validate_bot_archive of a zip with the members names whose
\* bot.py is src: the error message, or "ok"
validate_bot_source(names, src) ==
    IF validate_archive_infos(names) # "ok"
    THEN validate_archive_infos(names)
    ELSE IF select_bot_member(names).error # "none"
    THEN select_bot_member(names).error
    ELSE IF src.syntax_error
    THEN "bot.py contains invalid Python syntax"
    ELSE IF ~src.has_class
    THEN "bot.py must define a PokerBot class"
    ELSE "ok"

\* loader.resolve_bot_protocol_from_zip: the protocol, or the BotLoadError
resolve_bot_protocol_from_zip(names, src) ==
    LET declared == extract_declared_protocol_from_ast(src)
    IN IF select_bot_member(names).error # "none"
       THEN [raised |-> "BotLoadError", detail |-> select_bot_member(names).error]
       ELSE IF src.syntax_error
       THEN [raised |-> "BotLoadError",
             detail |-> "bot.py contains invalid Python syntax"]
       ELSE IF declared.error # "none"
       THEN [raised |-> "BotLoadError", detail |-> declared.error]
       ELSE [raised |-> "none",
             detail |-> IF resolve_declared_protocol(declared.module_protocol,
                                                     declared.class_protocol)
                             = PROTOCOL_V2
                        THEN PROTOCOL_V2 ELSE LEGACY_PROTOCOL_VERSION]

\* loader._load_module: the exception that leaves exec_module, or "none"
load_module(names, src) ==
    IF Member(<<"bot.py">>, TRUE) \in names
    THEN "IsADirectoryError"
    ELSE IF src.syntax_error
    THEN "SyntaxError"
    ELSE IF src.module_raises
    THEN "Exception"
    ELSE "none"

\* what load_bot_from_zip does with every exception that is no BotLoadError
RaiseOther(exception) == [raised |-> exception, detail |-> "not caught"]

\* loader.load_bot_from_zip of a stored zip: what it raises, "none" when it
\* returns the bot
load_bot_from_zip(names, src) ==
    IF validate_archive_infos(names) # "ok"
    THEN [raised |-> "BotLoadError", detail |-> validate_archive_infos(names)]
    ELSE IF resolve_bot_entrypoint(names).error
                = "Archive contains multiple bot.py candidates"
    THEN [raised |-> "BotLoadError", detail |-> resolve_bot_entrypoint(names).error]
    ELSE IF resolve_bot_entrypoint(names).error # "none"
    THEN [raised |-> "BotLoadError",
          detail |-> "bot.py must exist at zip root or one top-level folder"]
    ELSE IF load_module(names, src) # "none"
    THEN RaiseOther(load_module(names, src))
    ELSE IF ~src.has_class
    THEN [raised |-> "BotLoadError", detail |-> "PokerBot class missing"]
    ELSE IF src.init_raises
    THEN RaiseOther("Exception")
    ELSE IF ~src.has_act
    THEN [raised |-> "BotLoadError", detail |-> "PokerBot.act missing"]
    ELSE [raised |-> "none", detail |-> "none"]

\* the members of the zips handed to validate_bot_archive and
\* load_bot_from_zip
IntakeMembers ==
    {Member(<<"bot.py">>, FALSE), Member(<<"bot.py">>, TRUE),
     Member(<<"a", "bot.py">>, FALSE), Member(<<"b", "bot.py">>, FALSE),
     UnsafeMember}

\* the zips: with an unsafe member or with a duplicate entry, not with both
\* (which of the two errors is reported depends on the order of the members)
IntakeArchives ==
    {S \in SUBSET IntakeMembers :
        ~(UnsafeMember \in S /\ \E m, n \in S : m # n /\ m.parts = n.parts)}

NoArchive ==
    [pc |-> "idle", names |-> {}, selected |-> [member |-> <<>>, error |-> "none"],
     entrypoint |-> [member |-> <<>>, error |-> "none"],
     source |-> GoodSource, validated |-> "none",
     loaded |-> [raised |-> "none", detail |-> "none"]]

InitArchive == archive = NoArchive

nonArchiveVars == <<matchVars, lock, wpc, cpc, cjoin, last, files,
                    hook_calls, runtimeVars, hand, norm, upload, listing,
                    auth, evaluation>>

\* an archive with the members names goes through validate_bot_archive and
\* load_bot_from_zip
ArchiveLookup(names) ==
    /\ archive.pc = "idle"
    /\ archive' = [NoArchive EXCEPT !.pc = "returned", !.names = names,
                                     !.selected = select_bot_member(names),
                                     !.entrypoint = resolve_bot_entrypoint(names)]
    /\ UNCHANGED nonArchiveVars

\* one zip, members names and bot.py src, is validated as upload_bot does and
\* loaded as register_bot does
ArchiveIntake(names, src) ==
    /\ archive.pc = "idle"
    /\ archive' = [NoArchive EXCEPT !.pc = "taken", !.names = names,
                                     !.source = src,
                                     !.validated = validate_bot_source(names, src),
                                     !.loaded = load_bot_from_zip(names, src)]
    /\ UNCHANGED nonArchiveVars

\* the archive is done with; the next one may come
ArchiveReturn ==
    /\ archive.pc \in {"returned", "taken"}
    /\ archive' = NoArchive
    /\ UNCHANGED nonArchiveVars

NextArchive ==
    \/ /\ archive.pc = "idle"
       /\ \E names \in SUBSET ArchiveMembers : ArchiveLookup(names)
    \/ ArchiveReturn

NextIntake ==
    \/ /\ archive.pc = "idle"
       /\ \E names \in IntakeArchives, src \in BotSources :
            ArchiveIntake(names, src)
    \/ ArchiveReturn

\* ------------------------------------------------- AuthService.login
\* AuthSettings
login_max_failures == 2
login_lockout_seconds == 2
login_failure_window_seconds == 1

\* the latest value of time.time() the model lets the clock reach
MaxClock == 3

\* the requests in progress at one time, each served by its own thread
LoginThreads == {1, 2}

\* locked_until IS NULL, and the None of get_locked_until
NoLock == -1

\* no row for the username in login_attempts
NoRow ==
    [present |-> FALSE, failure_count |-> 0, first_failed_at |-> 0,
     last_failed_at |-> 0, locked_until |-> NoLock]

\* AuthStore.get_locked_until
get_locked_until(row, now_ts) ==
    IF ~row.present
    THEN NoLock
    ELSE IF row.locked_until = NoLock \/ row.locked_until <= now_ts
    THEN NoLock
    ELSE row.locked_until

\* AuthStore.register_login_failure: the row it writes
failure_row(row, now_ts) ==
    LET fresh == ~row.present
                 \/ now_ts - row.last_failed_at > login_failure_window_seconds
        failure_count == IF fresh THEN 1 ELSE row.failure_count + 1
        first_failed_at == IF fresh THEN now_ts ELSE row.first_failed_at
        locked_until == IF failure_count >= login_max_failures
                        THEN now_ts + login_lockout_seconds
                        ELSE IF row.present THEN row.locked_until ELSE NoLock
    IN [present |-> TRUE, failure_count |-> failure_count,
        first_failed_at |-> first_failed_at, last_failed_at |-> now_ts,
        locked_until |-> locked_until]

\* AuthStore.register_login_failure: what it returns
register_login_failure(row, now_ts) ==
    LET locked_until == failure_row(row, now_ts).locked_until
    IN IF locked_until = NoLock \/ locked_until <= now_ts
       THEN NoLock
       ELSE locked_until

\* a thread that serves no login
IdleLogin ==
    [pc |-> "idle", now_ts |-> 0, password_ok |-> FALSE, outcome |-> "none",
     due_locked |-> FALSE]

\* the last login_max_failures failed attempts, newest last
latest_failures(failed, now_ts) ==
    LET all == Append(failed, now_ts)
    IN IF Len(all) > login_max_failures THEN Tail(all) ELSE all

\* login_max_failures failed attempts, none further than the failure window
\* from another
within_window(failed) ==
    /\ Len(failed) >= login_max_failures
    /\ \A i, j \in 1..Len(failed) :
            failed[i] - failed[j] <= login_failure_window_seconds

\* the service once constructed: the username neither registered nor
\* attempted; failed and deadline record what the callers have seen, the
\* failed attempts since the last success or registration, and the time up to
\* which the latest lockout they ran into lasts
InitAuth ==
    auth = [now |-> 0, registered |-> FALSE, row |-> NoRow,
            thr |-> [t \in LoginThreads |-> IdleLogin],
            failed |-> <<>>, deadline |-> 0]

nonAuthVars == <<matchVars, lock, wpc, cpc, cjoin, last, files,
                 hook_calls, runtimeVars, hand, norm, upload, listing,
                 archive, evaluation>>

\* time passes
Tick ==
    /\ auth.now < MaxClock
    /\ auth' = [auth EXCEPT !.now = @ + 1]
    /\ UNCHANGED nonAuthVars

\* AuthService.register of the username: taken names are turned down,
\* otherwise the user is created and its failures are cleared
register ==
    /\ ~auth.registered
    /\ auth' = [auth EXCEPT !.registered = TRUE, !.row = NoRow,
                            !.failed = <<>>]
    /\ UNCHANGED nonAuthVars

\* AuthService.login up to the lock check: AuthLockedError when
\* get_locked_until finds a lock
LoginBegin(t, password_ok) ==
    /\ auth.thr[t].pc = "idle"
    /\ auth' = [auth EXCEPT !.thr[t] =
            [pc |-> IF get_locked_until(auth.row, auth.now) # NoLock
                    THEN "returned" ELSE "checked",
             now_ts |-> auth.now,
             password_ok |-> password_ok,
             outcome |-> IF get_locked_until(auth.row, auth.now) # NoLock
                         THEN "locked" ELSE "none",
             due_locked |-> auth.deadline > auth.now]]
    /\ UNCHANGED nonAuthVars

\* the rest of AuthService.login: a failure is registered for an unknown
\* user or a wrong password, otherwise the failures are cleared and a session
\* is created
LoginFinish(t) ==
    LET me == auth.thr[t]
        failed == latest_failures(auth.failed, me.now_ts)
    IN /\ me.pc = "checked"
       /\ IF ~auth.registered \/ ~me.password_ok
          THEN auth' = [auth EXCEPT
                    !.row = failure_row(auth.row, me.now_ts),
                    !.thr[t].pc = "returned",
                    !.thr[t].outcome =
                        IF register_login_failure(auth.row, me.now_ts) # NoLock
                        THEN "locked" ELSE "invalid",
                    !.failed = failed,
                    !.deadline =
                        IF within_window(failed)
                           /\ me.now_ts + login_lockout_seconds > @
                        THEN me.now_ts + login_lockout_seconds ELSE @]
          ELSE auth' = [auth EXCEPT
                    !.row = NoRow,
                    !.thr[t].pc = "returned",
                    !.thr[t].outcome = "ok",
                    !.failed = <<>>]
       /\ UNCHANGED nonAuthVars

\* the caller has its answer
LoginReturn(t) ==
    /\ auth.thr[t].pc = "returned"
    /\ auth' = [auth EXCEPT !.thr[t] = IdleLogin]
    /\ UNCHANGED nonAuthVars

NextAuth ==
    \/ Tick
    \/ register
    \/ \E t \in LoginThreads, password_ok \in BOOLEAN : LoginBegin(t, password_ok)
    \/ \E t \in LoginThreads : LoginFinish(t)
    \/ \E t \in LoginThreads : LoginReturn(t)

\* ------------------------------------------- engine/game.py, showdown
\* the rank of an ace
ACE == 14
\* the deck the evaluated hands are drawn from: the ranks 2..MaxLowRank and
\* the ace, in the first MaxSuits suits of SUITS
MaxLowRank == 6
MaxSuits == 3

\* Card(rank, suit)
Card(rank, suit) == [rank |-> rank, suit |-> suit]
Deck == {Card(r, s) : r \in (2..MaxLowRank) \cup {ACE}, s \in 1..MaxSuits}

\* the position of a card in the deck, to draw each hand once
card_index(c) == c.rank * (MaxSuits + 1) + c.suit

RECURSIVE sorted_reverse(_)
\* sorted(S, reverse=True) of a set of ints
sorted_reverse(S) ==
    IF S = {} THEN <<>> ELSE <<Max(S)>> \o sorted_reverse(S \ {Max(S)})

RECURSIVE card_ranks(_)
\* sorted((card.rank for card in cards), reverse=True)
card_ranks(cards) ==
    IF cards = {} THEN <<>>
    ELSE LET c == CHOOSE x \in cards : \A y \in cards : x.rank >= y.rank
         IN <<c.rank>> \o card_ranks(cards \ {c})

RECURSIVE count_sorted(_, _)
\* the ranks of sorted(counts.items(), key=(count, rank), reverse=True)
count_sorted(S, counts) ==
    IF S = {} THEN <<>>
    ELSE LET r == CHOOSE x \in S : \A y \in S :
                     \/ counts[x] > counts[y]
                     \/ counts[x] = counts[y] /\ x >= y
         IN <<r>> \o count_sorted(S \ {r}, counts)

\* a hand key: (category, [tie-breaking ranks])
HandKey(category, tiebreak) == <<category, tiebreak>>

\* evaluate_five_card_hand taking the ace of a wheel for its high card
evaluate_five_card_hand_AceHighWheel(cards) ==
    LET ranks == card_ranks(cards)
        flush == Cardinality({c.suit : c \in cards}) = 1
        unique == {c.rank : c \in cards}
        unique_ranks == sorted_reverse(unique)
        wheel == unique_ranks = <<ACE, 5, 4, 3, 2>>
        straight == /\ Len(unique_ranks) = 5
                    /\ \/ unique_ranks[1] - unique_ranks[5] = 4
                       \/ wheel
        straight_high == unique_ranks[1]
        counts == [r \in unique |-> Cardinality({c \in cards : c.rank = r})]
        ordered_ranks == count_sorted(unique, counts)
        count_values == [i \in DOMAIN ordered_ranks |-> counts[ordered_ranks[i]]]
        singles == sorted_reverse({r \in unique : counts[r] = 1})
        pairs == sorted_reverse({r \in unique : counts[r] = 2})
    IN CASE straight /\ flush -> HandKey(8, <<straight_high>>)
         [] count_values = <<4, 1>> ->
               HandKey(7, <<ordered_ranks[1], ordered_ranks[2]>>)
         [] count_values = <<3, 2>> ->
               HandKey(6, <<ordered_ranks[1], ordered_ranks[2]>>)
         [] flush -> HandKey(5, ranks)
         [] straight -> HandKey(4, <<straight_high>>)
         [] count_values = <<3, 1, 1>> ->
               HandKey(3, <<ordered_ranks[1]>> \o singles)
         [] count_values = <<2, 2, 1>> -> HandKey(2, pairs \o singles)
         [] count_values = <<2, 1, 1, 1>> ->
               HandKey(1, <<ordered_ranks[1]>> \o singles)
         [] OTHER -> HandKey(0, ranks)

\* evaluate_five_card_hand
evaluate_five_card_hand(cards) ==
    LET ranks == card_ranks(cards)
        flush == Cardinality({c.suit : c \in cards}) = 1
        unique == {c.rank : c \in cards}
        unique_ranks == sorted_reverse(unique)
        wheel == unique_ranks = <<ACE, 5, 4, 3, 2>>
        straight == /\ Len(unique_ranks) = 5
                    /\ \/ unique_ranks[1] - unique_ranks[5] = 4
                       \/ wheel
        straight_high == IF unique_ranks[1] - unique_ranks[5] = 4
                         THEN unique_ranks[1] ELSE 5
        counts == [r \in unique |-> Cardinality({c \in cards : c.rank = r})]
        ordered_ranks == count_sorted(unique, counts)
        count_values == [i \in DOMAIN ordered_ranks |-> counts[ordered_ranks[i]]]
        singles == sorted_reverse({r \in unique : counts[r] = 1})
        pairs == sorted_reverse({r \in unique : counts[r] = 2})
    IN CASE straight /\ flush -> HandKey(8, <<straight_high>>)
         [] count_values = <<4, 1>> ->
               HandKey(7, <<ordered_ranks[1], ordered_ranks[2]>>)
         [] count_values = <<3, 2>> ->
               HandKey(6, <<ordered_ranks[1], ordered_ranks[2]>>)
         [] flush -> HandKey(5, ranks)
         [] straight -> HandKey(4, <<straight_high>>)
         [] count_values = <<3, 1, 1>> ->
               HandKey(3, <<ordered_ranks[1]>> \o singles)
         [] count_values = <<2, 2, 1>> -> HandKey(2, pairs \o singles)
         [] count_values = <<2, 1, 1, 1>> ->
               HandKey(1, <<ordered_ranks[1]>> \o singles)
         [] OTHER -> HandKey(0, ranks)

RECURSIVE list_less(_, _)
\* Python's a < b for two lists of ints
list_less(a, b) ==
    IF a = <<>> THEN b # <<>>
    ELSE IF b = <<>> THEN FALSE
    ELSE IF a[1] # b[1] THEN a[1] < b[1]
    ELSE list_less(Tail(a), Tail(b))

\* Python's a < b for two hand keys (tuples of a category and a list)
key_less(a, b) ==
    \/ a[1] < b[1]
    \/ a[1] = b[1] /\ list_less(a[2], b[2])

NoEvaluation == [pc |-> "idle", cards |-> {}, key |-> HandKey(0, <<>>)]

InitEvaluation == evaluation = NoEvaluation

nonEvaluationVars == <<matchVars, lock, wpc, cpc, cjoin, last, files,
                       hook_calls, runtimeVars, hand, norm, upload, listing,
                       archive, auth>>

\* evaluate_five_card_hand called with five cards of the deck
EvaluateCall(cards) ==
    /\ evaluation.pc = "idle"
    /\ evaluation' = [pc |-> "returned", cards |-> cards,
                      key |-> evaluate_five_card_hand(cards)]
    /\ UNCHANGED nonEvaluationVars

\* the caller has used the key; the next call may come
EvaluateReturn ==
    /\ evaluation.pc = "returned"
    /\ evaluation' = NoEvaluation
    /\ UNCHANGED nonEvaluationVars

\* the cards of the deck after card c
After(c) == {d \in Deck : card_index(d) > card_index(c)}

NextEvaluation ==
    \/ /\ evaluation.pc = "idle"
       /\ \E c1 \in Deck : \E c2 \in After(c1) : \E c3 \in After(c2) :
             \E c4 \in After(c3) : \E c5 \in After(c4) :
                EvaluateCall({c1, c2, c3, c4, c5})
    \/ EvaluateReturn

\* ------------------------------------------------------------------- Spec
Init ==
    /\ InitMatch
    /\ InitRuntime
    /\ InitHand
    /\ InitNormalize
    /\ InitUpload
    /\ InitListing
    /\ InitArchive
    /\ InitAuth
    /\ InitEvaluation

Next ==
    \/ \E c \in DOMAIN cpc : start_match(c)
    \/ \E c \in DOMAIN cpc : pause_match(c)
    \/ \E c \in DOMAIN cpc : resume_match(c)
    \/ \E c \in DOMAIN cpc : end_match(c)
    \/ \E c \in DOMAIN cpc : reset_match(c)
    \/ \E c \in DOMAIN cpc : JoinDone(c)
    \/ \E c \in DOMAIN cpc : JoinTimeout(c)
    \/ \E c \in DOMAIN cpc : ResetClear(c)
    \/ \E c \in DOMAIN cpc, s \in RegSeats, p \in BotPaths :
          register_bot(c, s, "bot.zip", p, 1)
    \/ \E w \in Workers : WorkerCheck(w)
    \/ \E w \in Workers : WorkerBeginHand(w)
    \/ \E w \in Workers, o \in HandOutcomes : WorkerEndHand(w, o)
    \/ \E w \in Workers : WorkerCrashHandler(w)
    \/ \E w \in Workers : WorkerSetStop(w)

Spec == Init /\ [][Next]_vars

\* the steps of match-loop thread w
WorkerStep(w) ==
    \/ WorkerCheck(w)
    \/ WorkerBeginHand(w)
    \/ \E o \in HandOutcomes : WorkerEndHand(w, o)
    \/ WorkerCrashHandler(w)
    \/ WorkerSetStop(w)

\* MatchService with every started match-loop thread scheduled again and
\* again: a thread that can take a step is not left waiting forever
SpecLive == Init /\ [][Next]_vars /\ \A w \in Workers : WF_vars(WorkerStep(w))

\* MatchService with room for several hands in the hand list, the seats
\* being filled with bots that load
NextHandList ==
    \/ \E c \in DOMAIN cpc : start_match(c)
    \/ \E c \in DOMAIN cpc : pause_match(c)
    \/ \E c \in DOMAIN cpc : resume_match(c)
    \/ \E c \in DOMAIN cpc : end_match(c)
    \/ \E c \in DOMAIN cpc : reset_match(c)
    \/ \E c \in DOMAIN cpc : JoinDone(c)
    \/ \E c \in DOMAIN cpc : JoinTimeout(c)
    \/ \E c \in DOMAIN cpc : ResetClear(c)
    \/ \E c \in DOMAIN cpc, s \in {1, 2} : register_bot(c, s, "bot.zip", "loads", 1)
    \/ \E w \in Workers : WorkerCheck(w)
    \/ \E w \in Workers : WorkerBeginHandUpTo(w, MaxListed)
    \/ \E w \in Workers, o \in HandOutcomes : WorkerEndHand(w, o)
    \/ \E w \in Workers : WorkerCrashHandler(w)
    \/ \E w \in Workers : WorkerSetStop(w)

SpecHandList == Init /\ [][NextHandList]_vars

\* one archive after another looked into by the validator and the loader
SpecArchive == Init /\ [][NextArchive]_vars

\* validate_bot_archive and load_bot_from_zip over zips and bot.py texts
SpecIntake == Init /\ [][NextIntake]_vars

\* logins and a registration for one username, served concurrently
SpecAuth == Init /\ [][NextAuth]_vars

\* one five-card hand after another evaluated
SpecEvaluation == Init /\ [][NextEvaluation]_vars

\* play_hand with bots that reply whatever they like, and always reply:
\* bots[seat].act(state) returns, so a round that awaits a reply gets one
SpecHandAny ==
    Init /\ [][NextHandAny]_vars
         /\ WF_vars(\E raw_action \in AnyReplies : run_betting_round(raw_action))

\* list_hands called on one hand list after another
SpecListing == Init /\ [][NextListing]_vars

\* upload_bot requests and resets served by the API thread, no match running
SpecUpload == Init /\ [][NextUpload]_vars

\* BotRunner.act calls against the shared _EXECUTOR
SpecDecide == Init /\ [][NextDecide]_vars

\* PokerEngine.play_hand, hand after hand
SpecHand == Init /\ [][NextHand]_vars

\* normalize_action, call after call
SpecNormalize == Init /\ [][NextNormalize]_vars

\* ================================================================= claims

\* a lifecycle command step of API thread c
LifecycleStep(c) ==
    start_match(c) \/ pause_match(c) \/ resume_match(c) \/ end_match(c)

TwoReady == Cardinality(ready_seats_locked) >= 2

\* C1: start_match succeeds only from waiting or stopped, pause_match only
\* from running, resume_match only from paused, end_match only from running
\* or paused; success sets the status to running, paused, running, stopped;
\* start and resume also need two ready seats with a loaded bot; every
\* other (status, command) pair raises.
C1_LifecycleTable ==
    [][\A c \in DOMAIN cpc :
        /\ start_match(c) =>
              IF status \in {"waiting", "stopped"} /\ TwoReady
              THEN last' = Outcome("start", TRUE) /\ status' = "running"
              ELSE last' = Outcome("start", FALSE)
        /\ pause_match(c) =>
              IF status = "running"
              THEN last' = Outcome("pause", TRUE) /\ status' = "paused"
              ELSE last' = Outcome("pause", FALSE)
        /\ resume_match(c) =>
              IF status = "paused" /\ TwoReady
              THEN last' = Outcome("resume", TRUE) /\ status' = "running"
              ELSE last' = Outcome("resume", FALSE)
        /\ end_match(c) =>
              IF status \in {"running", "paused"}
              THEN last' = Outcome("end", TRUE) /\ status' = "stopped"
              ELSE last' = Outcome("end", FALSE)]_vars

\* a resume that succeeded, after a hand was played
C1_Witness ==
    /\ last = Outcome("resume", TRUE)
    /\ status = "running"
    /\ Len(hands) > 0

\* pause_match returned normally and no lifecycle command was called since
PauseReturned ==
    /\ last = Outcome("pause", TRUE)
    /\ \A c \in DOMAIN cpc : cpc[c] = "idle"

\* C2: once pause_match has returned, and until the next lifecycle command
\* is called, no HandRecord is appended, no history file is written and
\* on_hand_completed is not invoked, whatever the worker threads do.
C2_NoHandAfterPause ==
    [][PauseReturned =>
        /\ Len(hands') <= Len(hands)
        /\ files' \subseteq files
        /\ hook_calls' = hook_calls]_vars

\* pause_match has returned after its join timed out: the worker is still
\* alive, past its stop check and about to take the lock
C2_Witness ==
    /\ PauseReturned
    /\ \E w \in Workers : wpc[w] = "lock"

\* C3: when playing a hand raises, no HandRecord and no history file exist
\* for the failed hand, the status becomes waiting, startedAt is cleared,
\* and the worker sets the shutdown signal and plays no further hand.
C3_CrashContainment ==
    [][\A w \in Workers :
        /\ (wpc[w] = "hand" /\ wpc'[w] = "crash") =>
              hands' = hands /\ files' = files
        /\ (wpc[w] = "crash" /\ wpc'[w] # "crash") =>
              status' = "waiting" /\ started_at' = "none" /\ wpc'[w] = "setstop"
        /\ (wpc[w] = "setstop" /\ wpc'[w] # "setstop") =>
              stop_event' /\ wpc'[w] = "none"]_vars

\* a match-loop thread that may still play a hand
CanPlay(w) ==
    \/ wpc[w] = "hand"
    \/ wpc[w] = "lock" /\ status = "running"
    \/ wpc[w] = "check" /\ ~stop_event /\ status = "running"

\* C4: at every moment at most one worker thread is executing the match
\* loop: no two live workers can both play hands.
C4_SingleWorker ==
    Cardinality({w \in Workers : CanPlay(w)}) <= 1

\* C6: BotRunner.act returns normally for every bot behaviour, with a
\* well-formed {action, amount} or exactly {fold, 0, error}; it never
\* propagates an exception.
C6_ActNeverRaises ==
    \/ decide.result.kind = "action"
    \/ decide.result.kind = "fallback" /\ decide.result.action = "fold"
                                       /\ decide.result.amount = 0

\* the bot of the latest call answered correctly and within the timeout
AnswersCorrectly ==
    /\ decide.state = "ok"
    /\ \/ decide.mode = "in_process" /\ decide.behaviour = "returns"
       \/ decide.mode = "subprocess" /\ decide.behaviour = "result"
    /\ act_normalize(decide.value).kind = "action"

\* C7: after any number of failed or timed-out decisions, a decision of a
\* bot that answers correctly within the timeout returns that bot's
\* action, not an error.
C7_FailuresIsolated ==
    AnswersCorrectly => decide.result = act_normalize(decide.value)

\* C8: a lifecycle command that raises leaves the match state as it was:
\* status, startedAt, hands, hand counter, button, seats, bots, shutdown
\* signal, worker threads and hand files.
C8_ErrorsChangeNothing ==
    [][\A c \in DOMAIN cpc :
        (~last'.ok /\ LifecycleStep(c)) =>
            UNCHANGED <<matchVars, wpc, lock, files, cpc, cjoin>>]_vars

\* pause_match raised while a stopped match still has hands on record
C8_Witness ==
    /\ last = Outcome("pause", FALSE)
    /\ status = "stopped"
    /\ Len(hands) > 0

\* C9: when reset_match returns, from any prior status, the status is
\* waiting, startedAt is null, the hand list is empty, no seat is ready or
\* has a bound bot, hand counter and button are cleared, and the HandStore
\* holds no hand files.
C9_ResetClearsAll ==
    [][\A c \in DOMAIN cpc :
        (cpc[c] = "reset_clear" /\ cpc'[c] = "idle") =>
            /\ status' = "waiting"
            /\ started_at' = "none"
            /\ hands' = <<>>
            /\ \A s \in SEAT_ORDER : ~seats'[s].ready /\ ~bots'[s]
            /\ hand_counter' = 0
            /\ button_seat' = NoSeat
            /\ files' = {}]_vars

\* reset_match has returned although its join timed out: a match-loop
\* thread is still alive
C9_Witness ==
    /\ last = Outcome("reset", TRUE)
    /\ \A c \in DOMAIN cpc : cpc[c] = "idle"
    /\ \E w \in Workers : is_alive(w)
    /\ files = {}

\* C10: on_hand_completed is invoked exactly once for every completed hand,
\* after the HandRecord is appended and the history file written.
C10_HookOncePerHand ==
    [][Len(hands') = Len(hands) + 1 =>
        /\ hook_calls' = hook_calls + 1
        /\ hand_counter \in files']_vars

\* C5: for every completed hand (fold-out or showdown, any seats, any bot
\* replies) the per-seat deltas of the HandResult sum to exactly 0
C5_DeltasSumToZero ==
    hand.pc = "done" => SumOver(hand.deltas, hand.active_seats) = 0

\* a showdown after a fold, two winners sharing an odd slice: the remainder
\* chip went to the first of them
C5_Witness ==
    /\ hand.pc = "done"
    /\ hand.ending = "showdown"
    /\ hand.folded # {}
    /\ Cardinality(hand.winners) = 2
    /\ \E a \in hand.winners, b \in hand.winners : hand.deltas[a] > hand.deltas[b]

\* a command that shuts the worker down has returned to its caller
ShutdownReturned ==
    /\ last \in {Outcome("pause", TRUE), Outcome("end", TRUE),
                 Outcome("reset", TRUE)}
    /\ \A c \in DOMAIN cpc : cpc[c] = "idle"

\* C11: after pause_match, end_match or reset_match has returned, and unless
\* a start_match or resume_match sets the match running again, no further
\* hand is recorded and every worker thread eventually terminates (each
\* worker thread being scheduled fairly).
C11_WorkerStopsAndTerminates ==
    /\ [][status # "running" => Len(hands') <= Len(hands)]_vars
    /\ \A w \in Workers :
          (ShutdownReturned /\ is_alive(w))
              ~> (~is_alive(w) \/ status = "running")

\* end_match has returned after its join timed out, a hand was played, and
\* the worker is still alive
C11_Witness ==
    /\ last = Outcome("end", TRUE)
    /\ \A c \in DOMAIN cpc : cpc[c] = "idle"
    /\ Len(hands) > 0
    /\ \E w \in Workers : is_alive(w)

\* C12: throughout a hand the stacks and the contributions add up to the
\* number of active seats times the starting stack, no seat's street bet
\* exceeds its contribution, no stack is negative, and only active seats
\* are folded.
C12_ChipConservation ==
    hand.pc # "idle" =>
        /\ SumOver(hand.stacks, hand.active_seats)
             + SumOver(hand.contributions, hand.active_seats)
           = Cardinality(hand.active_seats) * starting_stack_cents
        /\ \A seat \in hand.active_seats :
              /\ hand.bets[seat] <= hand.contributions[seat]
              /\ hand.stacks[seat] >= 0
        /\ hand.folded \subseteq hand.active_seats

\* river betting after a fold: a seat has bet on this street and had
\* already contributed on earlier ones
C12_Witness ==
    /\ hand.pc = "betting"
    /\ hand.street = "river"
    /\ hand.folded # {}
    /\ \E seat \in hand.active_seats :
          hand.bets[seat] > 0 /\ hand.contributions[seat] > hand.bets[seat]

\* C13: every ActionEvent other than a blind is recorded for a seat that had
\* not folded earlier in the hand and that had chips left when it was asked.
C13_NoEventAfterFoldOrAllIn ==
    [][\A i \in DOMAIN hand'.events :
          hand'.events[i].action # "blind" =>
              /\ hand'.events[i].seat \notin hand.folded
              /\ hand.stacks[hand'.events[i].seat] > 0]_vars

\* a seat has folded, another is all-in, and the third seat was asked and
\* its call recorded
C13_Witness ==
    /\ hand.folded # {}
    /\ hand.events # <<>>
    /\ hand.events[1].action = "call"
    /\ \E seat \in hand.active_seats \ hand.folded :
          seat # hand.events[1].seat /\ hand.stacks[seat] = 0

\* C14: for every raw reply and every round context, normalize_action
\* returns an action that is a member of the legal_actions of that context.
C14_NormalizedIsLegal ==
    norm.pc = "returned" =>
        /\ norm.result.exc = "none"
        /\ norm.result.action \in norm.legal

\* the call reached the bet / raise branch of normalize_action (a known
\* action that, once renamed for the round, is a legal bet or raise) and
\* returned from it
TargetBranchReturned ==
    /\ norm.pc = "returned"
    /\ norm.raw.isdict
    /\ norm.raw.action \in KnownActions
    /\ rename_action(norm.raw.action, norm.to_call, norm.current_bet)
          \in {"bet", "raise"} \cap norm.legal
    /\ norm.result.exc = "none"

FoldingReplies ==
    {[isdict |-> TRUE, action |-> a, amount |-> [t |-> "int", v |-> 0]] :
        a \in {"fold", "dance"}}

\* C16: a seat that owes nothing never folds: with to_call = 0 no reply is
\* recorded as a fold, and a reply that would fold (an explicit fold, which
\* is also what a failed decision comes back as, or an unknown action) is
\* recorded as a check.
C16_NoFoldForFree ==
    [][(/\ hand.pc = "betting"
        /\ hand.current_bet - hand.bets[hand.seat] = 0
        /\ hand' # hand)
       => /\ \A i \in DOMAIN hand'.events : hand'.events[i].action # "fold"
          /\ \/ hand'.events
                  = <<ActionEvent(hand.seat, "check", 0, hand.street)>>
             \/ \A raw \in FoldingReplies : ~run_betting_round(raw)]_vars

\* the big blind, owing nothing before the flop, was recorded checking
C16_Witness ==
    /\ hand.events # <<>>
    /\ hand.events[1].action = "check"
    /\ hand.events[1].street = "preflop"
    /\ hand.events[1].seat = hand.big_blind


\* C17: when the serialised state is larger than MAX_STATE_BYTES, act
\* returns the fallback fold with error state_too_large, and the bot's act
\* was not invoked, whatever the runner's mode.
C17_OversizedStateNotSent ==
    (decide.mode # "none" /\ decide.state = "too_large")
    => /\ decide.result = Fallback("state_too_large")
       /\ ~decide.invoked

\* an in-process runner with an idle pool thread was given an oversized state
C17_Witness ==
    /\ decide.mode = "in_process"
    /\ decide.state = "too_large"
    /\ pool_running < PoolSize
    /\ decide.result.error = "state_too_large"

\* C18: at most one bot act() is executing at any time: a decision whose
\* bot is invoked starts only when no earlier act, abandoned after its
\* timeout, is still running on a thread of _EXECUTOR.
C18_OneActAtATime ==
    [][((\/ \E call \in InProcessCalls :
              ActInProcess(call[1], call[2], call[3])
         \/ \E call \in SubprocessCalls :
              ActInSubprocess(call[1], call[2], call[3]))
        /\ decide'.invoked)
       => pool_running = 0]_vars


\* a step in which upload_bot served a request: the only step that changes
\* the state and leaves the API thread where it was
UploadServed == cpc' = cpc /\ vars' # vars

\* C19: an upload whose registration fails (the archive is turned down by
\* validate_bot_archive, or load_bot_from_zip raises) is answered with an
\* error status and leaves every seat's ready flag, bot name, upload time
\* and bound bot as they were; when validation turned the archive down,
\* nothing is added under runtime/uploads or runtime/artifacts.
C19_FailedRegistrationLeavesSeat ==
    [][(/\ UploadServed
        /\ upload'.payload \in Archives \ {"oversized", "loads"})
       => /\ upload'.status >= 400
          /\ seats' = seats
          /\ bots' = bots
          /\ validate_bot_archive(upload'.payload) # "ok" =>
                /\ upload'.uploads = upload.uploads
                /\ upload'.artifacts = upload.artifacts]_vars

\* a seat holding a loaded bot was sent an archive that does not load: the
\* request was answered 400 after its archive had been stored
C19_Witness ==
    /\ upload.payload = "load_error"
    /\ upload.status = 400
    /\ upload.uploads = 2
    /\ \E s \in RegSeats : seats[s].ready /\ bots[s]

\* C20: in every reachable state a seat is reported ready exactly when a
\* bot is bound to it.
C20_ReadyIffBound == \A s \in SEAT_ORDER : seats[s].ready <=> bots[s]

\* a step in which register_bot registered a seat: _seats or _bots is
\* written and the API thread is back at once (reset_match, the other
\* writer, goes on to its join)
RegistrationStep == cpc' = cpc /\ (seats' # seats \/ bots' # bots)

\* C21: register_bot leaves the status, startedAt, the hand list and the
\* worker (its thread, its position, the shutdown signal) as they are, and
\* a hand is appended only while the status is running, which only
\* start_match or resume_match sets.
C21_RegistrationStartsNothing ==
    [][/\ RegistrationStep =>
            UNCHANGED <<status, started_at, hands, hand_counter, stop_event,
                        loop_thread, wpc>>
       /\ Len(hands') > Len(hands) => status = "running"
       /\ (status' = "running" /\ status # "running") =>
            last' \in {Outcome("start", TRUE), Outcome("resume", TRUE)}]_vars

\* two seats hold a loaded bot, no lifecycle command was ever called, and
\* the match is still waiting with no hand and no worker
C21_Witness ==
    /\ TwoReady
    /\ last.cmd = "none"
    /\ status = "waiting"
    /\ hands = <<>>
    /\ \A w \in Workers : ~is_alive(w)


\* C22: the hand ids in the hand list are strictly increasing in list
\* order (an id is str(_hand_counter), compared here as the integer it
\* spells), and none is above the hand counter.
C22_HandIdsIncrease ==
    /\ \A i \in DOMAIN hands, j \in DOMAIN hands :
          i < j => hands[i].hand_id < hands[j].hand_id
    /\ \A i \in DOMAIN hands : hands[i].hand_id <= hand_counter

\* two hands are listed, on either side of one that raised and left no
\* record
C22_Witness ==
    /\ Len(hands) = 2
    /\ hands[1].hand_id = 1
    /\ hands[2].hand_id = 3


\* the snapshot size n of the latest call, and the 1-based positions of the
\* newest and the oldest record its page is to show
ListingN ==
    IF listing.max_hand_id.given
    THEN Min({Len(listing.hands), listing.max_hand_id.v})
    ELSE Len(listing.hands)
ListingNewest == ListingN - (listing.page - 1) * listing.page_size
ListingOldest == Max({ListingN - listing.page * listing.page_size, 0}) + 1

\* C23: list_hands(page, page_size, max_hand_id) with page >= 1 and
\* page_size >= 1 returns, newest first, exactly the records at 1-based
\* positions n-(page-1)*page_size down to max(n-page*page_size, 0)+1 with
\* n = min(handsPlayed, max_hand_id), or n = handsPlayed without
\* max_hand_id; it returns nothing past the end or with page_size < 1.
C23_PagesPartitionSnapshot ==
    (listing.pc = "returned" /\ ~listing.limit.given /\ listing.page >= 1)
    => IF listing.page_size < 1 \/ ListingNewest < ListingOldest
       THEN listing.result = <<>>
       ELSE /\ Len(listing.result) = ListingNewest - ListingOldest + 1
            /\ \A k \in DOMAIN listing.result :
                  listing.result[k] = listing.hands[ListingNewest + 1 - k]

\* the last, shorter page of a snapshot that leaves out the newest record
C23_Witness ==
    /\ listing.pc = "returned"
    /\ ~listing.limit.given
    /\ listing.hands = <<1, 2, 3, 4>>
    /\ listing.max_hand_id = SomeInt(3)
    /\ listing.page = 2
    /\ listing.page_size = 2
    /\ listing.result = <<1>>


\* the entrypoint candidates of the latest archive: a bot.py at the root,
\* or a bot.py directly inside a top-level directory
EntrypointCandidates ==
    {m \in archive.names :
        ~m.dir /\ Len(m.parts) <= 2 /\ m.parts[Len(m.parts)] = "bot.py"}

\* C24: an archive is accepted (an entrypoint is selected by the validator
\* or resolved by the loader) only if it has exactly one entrypoint
\* candidate, and that candidate is the entrypoint.
C24_UniqueEntrypoint ==
    archive.pc = "returned" =>
        /\ archive.selected.error = "none" =>
              EntrypointCandidates = {Member(archive.selected.member, FALSE)}
        /\ archive.entrypoint.error = "none" =>
              EntrypointCandidates = {Member(archive.entrypoint.member, FALSE)}

\* the protocol version bot.py declares, as extract_declared_protocol_from_ast
\* reads it: the module's when there is one, otherwise the class's
DeclaredProtocol ==
    resolve_declared_protocol(extract_module_protocol(archive.source).value,
                              extract_class_protocol(archive.source).value)

\* C25: archive validation rejects an archive whose declared protocol version
\* (module-level BOT_PROTOCOL_VERSION when present, otherwise
\* PokerBot.protocol_version) is not a supported one, and accepts an otherwise
\* valid archive that declares a supported version or none.
C25_DeclaredProtocolChecked ==
    archive.pc = "taken" =>
        /\ archive.validated = "ok" =>
                DeclaredProtocol \in SUPPORTED_DECLARED_PROTOCOLS \cup {NoProtocol}
        /\ ( /\ validate_bot_source(archive.names, GoodSource) = "ok"
             /\ ~archive.source.syntax_error
             /\ archive.source.has_class
             /\ extract_declared_protocol_from_ast(archive.source).error = "none" )
            => archive.validated = "ok"

\* C26: register_bot fails with BotLoadError, and with no other kind of
\* error, for an unsafe or invalid archive, a missing entrypoint, a missing
\* PokerBot class, a missing act method, or an exception raised while the
\* module is initialised or PokerBot is constructed.
C26_OnlyBotLoadError ==
    archive.pc = "taken" =>
        /\ archive.loaded.raised \in {"none", "BotLoadError"}
        /\ ( \/ validate_archive_infos(archive.names) # "ok"
             \/ resolve_bot_entrypoint(archive.names).error # "none"
             \/ archive.source.syntax_error
             \/ archive.source.module_raises
             \/ ~archive.source.has_class
             \/ archive.source.init_raises
             \/ ~archive.source.has_act )
            => archive.loaded.raised = "BotLoadError"

\* C27: after login_max_failures failed login attempts for a username
\* within the failure window, every further login attempt for that username,
\* the one with the correct password included, is rejected as locked until
\* the lockout period has elapsed.
C27_LockedUntilElapsed ==
    \A t \in LoginThreads :
        (auth.thr[t].pc # "idle" /\ auth.thr[t].due_locked)
            => auth.thr[t].outcome = "locked"

\* C28: the worker's crash handler changes the status only from running to
\* waiting; it never overwrites a paused, stopped, reset or restarted state
\* established between the failure and the handler's update.
C28_CrashHandlerOnlyStopsRunning ==
    [][(/\ status' # status
        /\ \E w \in Workers : wpc[w] = "crash" /\ wpc'[w] = "setstop")
            => (status = "running" /\ status' = "waiting")]_vars

\* C29: whenever the status is running, a worker thread is alive that will
\* play further hands: no interleaving of lifecycle commands with an exiting
\* worker leaves the status at running with no live worker.
C29_RunningHasLiveWorker ==
    status = "running" => \E w \in Workers : is_alive(w)

\* C30: the worker does not hold the scheduler lock while a hand is being
\* played, so that get_match, get_seats, register_bot and the lifecycle
\* commands, which all take the lock, can complete while a hand is in flight.
C30_HandPlayedWithoutLock ==
    \A w \in Workers : wpc[w] = "hand" => lock # w

\* C31: reset_match called from a non-worker thread joins the worker (with
\* a bounded timeout) before it clears any match state (status, hands,
\* seats, bots, counter, button, hand files): while the worker it has yet to
\* join is alive, the step that takes reset_match to its join clears nothing.
C31_JoinBeforeClear ==
    [][\A c \in DOMAIN cpc :
            (cpc[c] = "idle" /\ cpc'[c] = "reset_join" /\ is_alive(loop_thread))
                => UNCHANGED <<status, hands, seats, bots, hand_counter,
                               button_seat, files>>]_vars

\* the seats of the hand, other than the one asked, that have not folded
\* and have chips left
OthersWithChips ==
    {s \in (hand.active_seats \ hand.folded) \ {hand.seat} : hand.stacks[s] > 0}

\* the betting round the latest reply was given in goes on
SameRound == hand'.pc = "betting" /\ hand'.street = hand.street

\* C32: within a betting round a check or a call removes only the acting
\* seat from the pending set and adds none (a call, also an all-in call for
\* less, never re-opens the action); a bet or raise that increases the
\* current bet sets pending to exactly the other non-folded seats with a
\* nonzero stack. The round goes on exactly when that set is not empty.
C32_PendingAfterAction ==
    [][(hand.pc = "betting" /\ hand' # hand /\ Len(hand'.events) = 1) =>
        LET e == hand'.events[1]
        IN /\ e.action \in {"check", "call"} =>
                IF hand.pending \ {hand.seat} # {}
                THEN SameRound /\ hand'.pending = hand.pending \ {hand.seat}
                ELSE ~SameRound
           /\ (e.action \in {"bet", "raise"}
               /\ hand'.current_bet > hand.current_bet) =>
                IF OthersWithChips # {}
                THEN SameRound /\ hand'.pending = OthersWithChips
                ELSE ~SameRound]_vars

\* a call of a raise, made while the seat that raised still has chips, has
\* left only the seat that has yet to act pending
C32_Witness ==
    /\ hand.pc = "betting"
    /\ Len(hand.events) = 1
    /\ hand.events[1].action = "call"
    /\ hand.current_bet > big_blind_cents
    /\ Cardinality(hand.pending) = 1
    /\ \E s \in hand.active_seats \ (hand.folded \cup hand.pending) :
            s # hand.events[1].seat /\ hand.stacks[s] > 0

\* C33: every betting round terminates for every possible sequence of bot
\* responses, and therefore every play_hand call returns a HandResult: a hand
\* that awaits a reply is eventually concluded with its winners and deltas.
C33_PlayHandReturns == (hand.pc = "betting") ~> (hand.pc = "done")

\* the seats still in the hand after the step
StillIn == hand'.active_seats \ hand'.folded

\* C34: when a reply leaves all seats but one folded, the hand is over at
\* once with the fold as its last action: no further decision is requested,
\* no further board card is dealt, the remaining seat is the sole winner,
\* its delta is the sum of the other seats' contributions and every other
\* seat's delta is minus its own contribution
C34_FoldOutEndsHand ==
    [][(hand.pc = "betting" /\ hand' # hand /\ Cardinality(StillIn) = 1)
       => /\ hand'.pc = "done"
          /\ hand'.ending = "fold"
          /\ Len(hand'.events) = 1
          /\ hand'.events[1].action = "fold"
          /\ hand'.board = hand.board
          /\ hand'.street = hand.street
          /\ hand'.winners = StillIn
          /\ \A seat \in hand'.active_seats :
                hand'.deltas[seat] =
                   IF seat \in StillIn
                   THEN SumOver(hand'.contributions,
                                hand'.active_seats \ StillIn)
                   ELSE 0 - hand'.contributions[seat]]_vars

\* a three-seat hand was folded out on the flop after chips went in
C34_Witness ==
    /\ hand.pc = "done"
    /\ hand.ending = "fold"
    /\ Cardinality(hand.active_seats) = 3
    /\ hand.board = 3
    /\ hand.pot > 3 * big_blind_cents

\* the next seat of S clockwise after seat s (seat order, wrapping around)
NextAfter(S, s) ==
    IF \E t \in S : t > s THEN Min({t \in S : t > s}) ELSE Min(S)

\* the seat asked first in a round meant to start at seat s: s when it can
\* act, else the next seat after it that can
FirstToAct(h, s) ==
    IF s \in h.pending THEN s ELSE NextAfter(h.pending, s)

\* the positions of the hand h: two seats, or three and more
PositionsOf(h) ==
    LET S == h.active_seats
    IN IF Cardinality(S) = 2
       THEN /\ h.small_blind = h.button
            /\ h.big_blind = NextAfter(S, h.button)
            /\ h.postflop_start = h.big_blind
       ELSE /\ h.small_blind = NextAfter(S, h.button)
            /\ h.big_blind = NextAfter(S, h.small_blind)
            /\ h.postflop_start = h.small_blind

\* C35: with two seats the button posts the small blind, the other seat the
\* big blind, the small blind is asked first preflop and the big blind first
\* on every later street; with three or more seats the small blind is the
\* next seat after the button, the big blind the next after it, the first
\* seat asked preflop the next after the big blind, and the small blind is
\* asked first on every later street (a seat that folded or is all-in is
\* passed over for the next seat that can act)
C35_BlindPositions ==
    [][/\ (hand.pc \in {"idle", "done"} /\ hand'.pc = "betting")
          => /\ PositionsOf(hand')
             /\ hand'.events[1] = ActionEvent(hand'.small_blind, "blind",
                                              small_blind_cents, "preflop")
             /\ hand'.events[2] = ActionEvent(hand'.big_blind, "blind",
                                              big_blind_cents, "preflop")
             /\ hand'.seat = IF Cardinality(hand'.active_seats) = 2
                             THEN hand'.small_blind
                             ELSE NextAfter(hand'.active_seats, hand'.big_blind)
       /\ (hand.pc = "betting" /\ hand'.pc = "betting"
           /\ hand'.street # hand.street)
          => /\ PositionsOf(hand')
             /\ hand'.button = hand.button
             /\ hand'.seat = FirstToAct(hand', hand'.postflop_start)
             /\ Cardinality(hand'.active_seats) = 2
                => hand'.seat = hand'.big_blind]_vars

\* a three-seat hand with the button on seat 2 reached the flop with every
\* seat in, and the small blind (seat 3) is asked first
C35_Witness ==
    /\ hand.pc = "betting"
    /\ hand.street = "flop"
    /\ hand.active_seats = {1, 2, 3}
    /\ hand.button = 2
    /\ hand.pending = {1, 2, 3}
    /\ hand.seat = 3
    /\ hand.small_blind = 3
    /\ hand.big_blind = 1

\* a worker's step begins a hand: _simulate_hand_locked found two ready
\* seats and goes on to engine.play_hand
HandBegins == \E w \in Workers : wpc[w] = "lock" /\ wpc'[w] = "hand"

\* C36: the button of the first hand begun after construction or reset
\* (no button was set since) is the lowest-numbered active seat; the button
\* of every later hand is the next active seat clockwise after the button
\* of the hand begun before it, or the first active seat when that seat is
\* no longer active; between hands only reset_match touches the button
C36_ButtonRotation ==
    [][IF HandBegins
       THEN LET active == ready_seats_locked
            IN button_seat' =
                  IF button_seat = NoSeat THEN Min(active)
                  ELSE IF button_seat \in active
                       THEN NextAfter(active, button_seat)
                       ELSE Min(active)
       ELSE \/ button_seat' = button_seat
            \/ /\ button_seat' = NoSeat
               /\ hands' = <<>>
               /\ hand_counter' = 0]_vars

\* the third hand in a row of seats 1 and 2 is in play: the button went
\* from seat 1 to seat 2 and is back on seat 1
C36_Witness ==
    /\ \E w \in Workers : wpc[w] = "hand"
    /\ ready_seats_locked = {1, 2}
    /\ hand_counter = 3
    /\ Len(hands) = 2
    /\ hands[1].hand_id = 1
    /\ hands[2].hand_id = 2
    /\ button_seat = 1

\* the ids on the first page of list_hands(max_hand_id = k) when the page
\* is large enough for every hand
IdsUpTo(k) ==
    LET shown == list_hands(hands, NoInt, 1, Len(hands) + 1, SomeInt(k))
    IN {shown[i].hand_id : i \in DOMAIN shown}

\* C37: the i-th record of the hand list has hand_id i, and list_hands with
\* max_hand_id = k shows exactly the hands whose id is at most k, also
\* after a crashed hand followed by a new start_match
C37_HandIdIsPosition ==
    /\ \A i \in DOMAIN hands : hands[i].hand_id = i
    /\ \A k \in 0..hand_counter :
          IdsUpTo(k) = {hands[i].hand_id :
                           i \in {j \in DOMAIN hands : hands[j].hand_id <= k}}

\* ------------------------------------------- reset_match against callers
\* API threads that may be inside MatchService at the same time
MaxCallers == 2

\* MatchService.__init__ over a fresh HandStore directory, with MaxCallers
\* API threads about to call
InitCallers ==
    /\ status = "waiting"
    /\ started_at = "none"
    /\ hands = <<>>
    /\ hand_counter = 0
    /\ button_seat = NoSeat
    /\ seats = [s \in SEAT_ORDER |-> SeatState]
    /\ bots = [s \in SEAT_ORDER |-> FALSE]
    /\ stop_event = FALSE
    /\ loop_thread = NoThread
    /\ lock = NoThread
    /\ wpc = [w \in Workers |-> "none"]
    /\ cpc = [c \in 1..MaxCallers |-> "idle"]
    /\ cjoin = [c \in 1..MaxCallers |-> NoThread]
    /\ last = [cmd |-> "none", ok |-> TRUE]
    /\ files = {}
    /\ hook_calls = 0
    /\ InitRuntime
    /\ InitHand
    /\ InitNormalize
    /\ InitUpload
    /\ InitListing
    /\ InitArchive
    /\ InitAuth
    /\ InitEvaluation

\* reset_match, register_bot and start_match called by the API threads
\* while the match loop plays up to MaxHands hands
NextCallers ==
    \/ \E c \in DOMAIN cpc : start_match(c)
    \/ \E c \in DOMAIN cpc : reset_match(c)
    \/ \E c \in DOMAIN cpc : JoinDone(c)
    \/ \E c \in DOMAIN cpc : JoinTimeout(c)
    \/ \E c \in DOMAIN cpc : ResetClear(c)
    \/ \E c \in DOMAIN cpc, s \in {1, 2} : register_bot(c, s, "bot.zip", "loads", 1)
    \/ \E w \in Workers : WorkerCheck(w)
    \/ \E w \in Workers : WorkerBeginHand(w)
    \/ \E w \in Workers, o \in HandOutcomes : WorkerEndHand(w, o)
    \/ \E w \in Workers : WorkerCrashHandler(w)
    \/ \E w \in Workers : WorkerSetStop(w)

SpecCallers == InitCallers /\ [][NextCallers]_vars

\* HandStore.load_hand: the history text when <hand_id>.txt exists, else None
load_hand(hand_id) == IF hand_id \in files THEN "text" ELSE "None"

\* MatchService.get_hand: None for an id that is not listed, else the
\* record with the history load_hand returns
get_hand(hand_id) ==
    IF \E i \in DOMAIN hands : hands[i].hand_id = hand_id
    THEN [hand_id |-> hand_id, history |-> load_hand(hand_id)]
    ELSE "None"

\* C38: for every HandRecord in the hand list the HandStore holds the
\* history file of its hand id: get_hand never returns a listed hand with a
\* null history, however reset_match interleaves with register_bot,
\* start_match and the worker
C38_ListedHandHasHistory ==
    \A i \in DOMAIN hands :
       /\ hands[i].hand_id \in files
       /\ get_hand(hands[i].hand_id).history # "None"

\* protocol._build_legal_actions: the entry of each legal action, with the
\* bounds of its amount where it takes one (NoInt where it takes none)
build_legal_actions(legal, to_call, mrt, max_raise_to) ==
    {IF action \in {"fold", "check"}
     THEN [action |-> action, min_amount |-> NoInt, max_amount |-> NoInt]
     ELSE IF action = "call"
     THEN [action |-> action, min_amount |-> SomeInt(Max({to_call, 0})),
           max_amount |-> SomeInt(Max({to_call, 0}))]
     ELSE [action |-> action, min_amount |-> SomeInt(mrt),
           max_amount |-> SomeInt(max_raise_to)] : action \in legal}

\* the legal-action entries of the decision state built for the seat asked
OfferedEntries ==
    LET seat == hand.seat
        to_call == hand.current_bet - hand.bets[seat]
    IN build_legal_actions(
          legal_actions(to_call, hand.stacks[seat], hand.current_bet),
          to_call, min_raise_to(hand.current_bet, hand.min_raise),
          hand.bets[seat] + hand.stacks[seat])

\* C39: whenever bet or raise is offered to the seat asked, its minimum
\* target min_raise_to does not exceed its maximum target bet + stack
C39_RaiseBoundsConsistent ==
    hand.pc = "betting"
    => \A e \in OfferedEntries :
          e.action \in {"bet", "raise"} => e.min_amount.v <= e.max_amount.v

\* the hand evaluated is a wheel: its ranks are A, 2, 3, 4, 5
IsWheel == {c.rank : c \in evaluation.cards} = {ACE, 2, 3, 4, 5}
\* the hand evaluated is a six-high straight: its ranks are 2, 3, 4, 5, 6
IsSixHigh == {c.rank : c \in evaluation.cards} = {2, 3, 4, 5, 6}
\* all five cards of the hand evaluated share a suit
OneSuit == Cardinality({c.suit : c \in evaluation.cards}) = 1

\* C40: a hand with the ranks A, 2, 3, 4, 5 is a straight with high card 5
\* (category 4, or 8 when the five cards share a suit); that key is above
\* the key of every hand that is three of a kind or weaker, and below the
\* key of the six-high straight of the same category
C40_WheelIsFiveHigh ==
    evaluation.pc = "returned"
    => /\ IsWheel
          => evaluation.key = HandKey(IF OneSuit THEN 8 ELSE 4, <<5>>)
       /\ evaluation.key[1] <= 3
          => /\ key_less(evaluation.key, HandKey(4, <<5>>))
             /\ key_less(evaluation.key, HandKey(8, <<5>>))
       /\ IsSixHigh
          => /\ evaluation.key[1] = (IF OneSuit THEN 8 ELSE 4)
             /\ key_less(HandKey(evaluation.key[1], <<5>>), evaluation.key)

\* a wheel in two suits was evaluated
C40_Witness ==
    /\ evaluation.pc = "returned"
    /\ IsWheel
    /\ ~OneSuit
    /\ evaluation.key[1] = 4

=============================================================================
